---- MODULE Spec2Model ----
(***************************************************************************)
(* A model of the signalJourney validator: the schema version registry     *)
(* (schema_registry.py), the $ref inliner and the Validator facade         *)
(* (validator.py), the error enrichment (errors.py) and the command line   *)
(* (cli.py).                                                               *)
(*                                                                         *)
(* Python and JSON values are tagged records [t, v]: t is the Python type  *)
(* name (type(x).__name__) and v the payload.  A dict's payload is a       *)
(* function from key strings to values, a list's payload a sequence.       *)
(***************************************************************************)
EXTENDS Integers, Sequences, FiniteSets, TLC

VARIABLES
    listing,    \* the entries of schema/versions/ in the order iterdir() yields them
    legacy,     \* whether schema/signalJourney.schema.json (DEFAULT_SCHEMA_PATH) exists
    validator,  \* the Validator object of the library caller, or its construction failure
    last,       \* the pending outcome of the caller's validate call
    cli,        \* the outcome of a run of the command line
    versions_root,    \* whether the directory schema/versions/ exists
    registry_global,  \* schema_registry's module global _registry, with its history
    call,       \* the last call made on a registry, with its result
    inliner,    \* a call of inline_refs: the reference files, the argument, the result
    probe       \* a call of the validation step or of the ValidationErrorDetail constructor

vars == <<listing, legacy, validator, last, cli, versions_root, registry_global, call, inliner, probe>>

----------------------------------------------------------------------------
(* Python values *)

Str(s) == [t |-> "str", v |-> s]
Num(n) == [t |-> "int", v |-> n]
Float(n) == [t |-> "float", v |-> n]
Bool(b) == [t |-> "bool", v |-> b]
List(l) == [t |-> "list", v |-> l]
Dict(f) == [t |-> "dict", v |-> f]
Path(segs) == [t |-> "Path", v |-> segs]
None == [t |-> "NoneType", v |-> "None"]
EmptyDict == Dict([k \in {} |-> None])

\* Python truth value of a value (bool(x))
Truthy(x) ==
    CASE x.t = "NoneType" -> FALSE
      [] x.t = "str" -> x.v # ""
      [] x.t \in {"int", "float"} -> x.v # 0
      [] x.t = "bool" -> x.v
      [] x.t = "list" -> Len(x.v) > 0
      [] x.t = "dict" -> DOMAIN x.v # {}
      [] OTHER -> TRUE

\* dict.get(key) with the default None
DictGet(d, key) == IF key \in DOMAIN d.v THEN d.v[key] ELSE None

\* x in lst, for a Python list of values
InList(x, lst) == \E i \in 1..Len(lst) : lst[i] = x

SeqToSet(s) == {s[i] : i \in 1..Len(s)}

\* F applied to the value of x: a local name bound to a value computed once, as an
\* assignment "r = f(...)" binds it
Bind(x, F(_)) == CHOOSE y \in {F(v) : v \in {x}} : TRUE

----------------------------------------------------------------------------
(* Strings.  TLA+ strings are atomic, so the characters of every string    *)
(* that the program splits, parses or compares are listed here.            *)

Chars(s) ==
    CASE s = "" -> <<>>
      [] s = "0.1.0" -> <<"0", ".", "1", ".", "0">>
      [] s = "0.2.0" -> <<"0", ".", "2", ".", "0">>
      [] s = "0.3.0" -> <<"0", ".", "3", ".", "0">>
      [] s = "0.10.0" -> <<"0", ".", "1", "0", ".", "0">>
      [] s = "9.9.9" -> <<"9", ".", "9", ".", "9">>
      [] s = "0.01" -> <<"0", ".", "0", "1">>
      [] s = "0.1" -> <<"0", ".", "1">>
      [] s = "draft" -> <<"d", "r", "a", "f", "t">>
      [] s = "1.x" -> <<"1", ".", "x">>
      [] s = "d" -> <<"d">>
      [] s = "n" -> <<"n">>
      [] s = "description" -> <<"d", "e", "s", "c", "r", "i", "p", "t", "i", "o", "n">>
      [] s = "new_field" -> <<"n", "e", "w", "_", "f", "i", "e", "l", "d">>
      [] s = "schema_version" -> <<"s", "c", "h", "e", "m", "a", "_", "v", "e", "r", "s", "i", "o", "n">>
      [] s = "sj_version" -> <<"s", "j", "_", "v", "e", "r", "s", "i", "o", "n">>
      [] s = "empty" -> <<"e", "m", "p", "t", "y">>
      [] s = "README" -> <<"R", "E", "A", "D", "M", "E">>

\* the code point order of the characters that occur
CharRank(c) ==
    CASE c = "." -> 46
      [] c = "A" -> 65 [] c = "D" -> 68 [] c = "E" -> 69 [] c = "M" -> 77 [] c = "R" -> 82
      [] c = "y" -> 121
      [] c = "0" -> 48 [] c = "1" -> 49 [] c = "2" -> 50 [] c = "3" -> 51
      [] c = "4" -> 52 [] c = "5" -> 53 [] c = "6" -> 54 [] c = "7" -> 55
      [] c = "8" -> 56 [] c = "9" -> 57
      [] c = "_" -> 95
      [] c = "a" -> 97 [] c = "c" -> 99 [] c = "d" -> 100 [] c = "e" -> 101
      [] c = "f" -> 102 [] c = "h" -> 104 [] c = "i" -> 105 [] c = "j" -> 106
      [] c = "l" -> 108 [] c = "m" -> 109 [] c = "n" -> 110 [] c = "o" -> 111
      [] c = "p" -> 112 [] c = "r" -> 114 [] c = "s" -> 115 [] c = "t" -> 116
      [] c = "v" -> 118 [] c = "w" -> 119 [] c = "x" -> 120

Digits == {"0", "1", "2", "3", "4", "5", "6", "7", "8", "9"}

\* a < b for sequences of integers (Python tuple order, and string order by code point)
RECURSIVE SeqLess(_, _)
SeqLess(a, b) ==
    IF Len(b) = 0 THEN FALSE
    ELSE IF Len(a) = 0 THEN TRUE
    ELSE IF a[1] < b[1] THEN TRUE
    ELSE IF a[1] > b[1] THEN FALSE
    ELSE SeqLess(Tail(a), Tail(b))

\* str < str
StrLess(s1, s2) ==
    SeqLess([i \in 1..Len(Chars(s1)) |-> CharRank(Chars(s1)[i])],
            [i \in 1..Len(Chars(s2)) |-> CharRank(Chars(s2)[i])])

\* cs.split(sep) on a sequence of characters
RECURSIVE SplitChars(_, _, _)
SplitChars(cs, sep, cur) ==
    IF Len(cs) = 0 THEN <<cur>>
    ELSE IF cs[1] = sep THEN <<cur>> \o SplitChars(Tail(cs), sep, <<>>)
    ELSE SplitChars(Tail(cs), sep, Append(cur, cs[1]))

\* whether int(part) succeeds (no ValueError), for the characters that occur
IntParses(part) == Len(part) > 0 /\ \A i \in 1..Len(part) : part[i] \in Digits

RECURSIVE IntOf(_)
IntOf(part) ==
    IF Len(part) = 0 THEN 0
    ELSE 10 * IntOf(SubSeq(part, 1, Len(part) - 1)) + (CharRank(part[Len(part)]) - 48)

\* Stable insertion sort of a sequence of [key, val] records by key, the keys being
\* sequences of integers (list.sort and sorted keep equal keys in their given order).
RECURSIVE InsertSorted(_, _)
InsertSorted(sorted, x) ==
    IF Len(sorted) = 0 THEN <<x>>
    ELSE IF SeqLess(x.key, sorted[Len(sorted)].key)
         THEN Append(InsertSorted(SubSeq(sorted, 1, Len(sorted) - 1), x), sorted[Len(sorted)])
         ELSE Append(sorted, x)

RECURSIVE StableSort(_)
StableSort(seq) ==
    IF Len(seq) = 0 THEN <<>>
    ELSE InsertSorted(StableSort(SubSeq(seq, 1, Len(seq) - 1)), seq[Len(seq)])

Vals(seq) == [i \in 1..Len(seq) |-> seq[i].val]

----------------------------------------------------------------------------
(* The file system.  Paths are sequences of segments.  What varies between *)
(* runs is held in the variables listing and legacy; the contents of the   *)
(* files are fixed below.                                                  *)

SchemaFileName == "signalJourney.schema.json"
DEFAULT_SCHEMA_DIR == <<"schema">>
DEFAULT_SCHEMA_PATH == <<"schema", SchemaFileName>>

\* the names that may occur as entries of schema/versions/
VersionNames == {"0.1.0", "0.2.0", "0.3.0", "0.10.0"}

\* at most this many entries in schema/versions/
MaxDirs == 2

\* the names that may occur as entries of a versions directory when the registry is
\* used on its own: "draft" and "1.x" are directories holding a schema file, "empty"
\* is a directory without one and "README" is a regular file
EntryNames == VersionNames \cup {"draft", "1.x", "empty", "README"}

\* at most this many entries in a versions directory of the registry on its own
MaxEntries == 2

Parent(path) == SubSeq(path, 1, Len(path) - 1)

\* (base / ref).resolve(): ".." steps up, "." stays
RECURSIVE Resolve(_, _)
Resolve(base, segs) ==
    IF Len(segs) = 0 THEN base
    ELSE IF segs[1] = ".." THEN Resolve(IF Len(base) = 0 THEN base ELSE Parent(base), Tail(segs))
    ELSE IF segs[1] = "." THEN Resolve(base, Tail(segs))
    ELSE Resolve(Append(base, segs[1]), Tail(segs))

\* the segments of the relative paths that occur as external $ref strings
RefSegs(ref) ==
    CASE ref = "definitions/text.schema.json" -> <<"definitions", "text.schema.json">>
      [] ref = "missing.schema.json" -> <<"missing.schema.json">>
      [] OTHER -> <<ref>>

\* whether a reference string starts with "#"
IsAnchorRef(ref) == ref \in {"#", "#/$defs/text"}

\* A schema file of the tests' shape (test_schema_registry.py, create_test_schema and
\* test_multiple_versions): an object requiring schema_version and description.
SchemaV010 ==
    Dict([type |-> Str("object"),
          required |-> List(<<Str("schema_version"), Str("description")>>),
          properties |-> Dict([schema_version |-> Dict([type |-> Str("string"), const |-> Str("0.1.0")]),
                               description |-> Dict([type |-> Str("string")])])])

\* version 0.2.0 also requires new_field, whose subschema is an external reference
SchemaV020 ==
    Dict([type |-> Str("object"),
          required |-> List(<<Str("schema_version"), Str("description"), Str("new_field")>>),
          properties |-> Dict([schema_version |-> Dict([type |-> Str("string"), const |-> Str("0.2.0")]),
                               description |-> Dict([type |-> Str("string")]),
                               new_field |-> Dict("$ref" :> Str("definitions/text.schema.json"))])])

\* a schema that parses as JSON and is not a valid schema: "type" must be a string or a list
SchemaV030 ==
    Dict([type |-> Num(5),
          required |-> List(<<Str("schema_version")>>)])

\* the legacy schema at DEFAULT_SCHEMA_PATH: it has no schema_version property
SchemaLegacy ==
    Dict([type |-> Str("object"),
          required |-> List(<<Str("description")>>),
          properties |-> Dict([description |-> Dict([type |-> Str("string")])])])

TextDefinition == Dict([type |-> Str("string")])

\* the schema directories: the packaged one and the custom ones a caller may name
SchemaRoots == {"schema", "custom_a", "custom_b"}

\* The file at a path: [exists, isfile, parses, json].  versions is the listing of
\* the versions directory of the path's schema directory, legacyExists whether
\* DEFAULT_SCHEMA_PATH is there.
FileAt(path, versions, legacyExists) ==
    LET file(j) == [exists |-> TRUE, isfile |-> TRUE, parses |-> TRUE, json |-> j]
        garbage == [exists |-> TRUE, isfile |-> TRUE, parses |-> FALSE, json |-> None]
        absent == [exists |-> FALSE, isfile |-> FALSE, parses |-> FALSE, json |-> None]
        inVersion(name) == Len(path) >= 3 /\ path[1] \in SchemaRoots
                           /\ SubSeq(path, 2, 3) = <<"versions", name>>
                           /\ name \in SeqToSet(versions)
    IN  CASE path = DEFAULT_SCHEMA_PATH -> IF legacyExists THEN file(SchemaLegacy) ELSE absent
          [] inVersion("0.1.0") /\ Tail(Tail(Tail(path))) = <<SchemaFileName>> -> file(SchemaV010)
          [] inVersion("0.2.0") /\ Tail(Tail(Tail(path))) = <<SchemaFileName>> -> file(SchemaV020)
          [] inVersion("0.2.0") /\ Tail(Tail(Tail(path))) = <<"definitions", "text.schema.json">>
                -> file(TextDefinition)
          [] inVersion("0.3.0") /\ Tail(Tail(Tail(path))) = <<SchemaFileName>> -> file(SchemaV030)
          [] inVersion("0.10.0") /\ Tail(Tail(Tail(path))) = <<SchemaFileName>> -> garbage
          [] (inVersion("draft") \/ inVersion("1.x")) /\ Tail(Tail(Tail(path))) = <<SchemaFileName>>
                -> file(SchemaLegacy)
          [] OTHER -> absent

----------------------------------------------------------------------------
(* Formatted text.  A message or suggestion built by an f-string is a str  *)
(* whose payload is the template and whose args are the values put in it.  *)

FStr(template, args) == [t |-> "str", v |-> template, args |-> args]

\* repr(x): the str that shows the value x
Repr(x) == FStr("{x!r}", <<x>>)

\* sep.join(xs) for a list of str: the elements with sep between them
Join(sep, xs) ==
    IF Len(xs.v) = 0 THEN [t |-> "str", v |-> ""]
    ELSE IF Len(xs.v) = 1 THEN xs.v[1]
    ELSE [t |-> "str", v |-> "{joined}", sep |-> sep, parts |-> xs.v]

\* whether a formatted text has the value x among the values put in it, directly,
\* as an element of a list put in it or as a part of a joined str put in it
Names(text, x) ==
    /\ "args" \in DOMAIN text
    /\ \E i \in 1..Len(text.args) :
          \/ text.args[i] = x
          \/ text.args[i].t = "list" /\ InList(x, text.args[i].v)
          \/ "parts" \in DOMAIN text.args[i] /\ InList(x, text.args[i].parts)

\* len(x) for a str or a list
PyLen(x) == IF x.t = "str" THEN Len(Chars(x.v)) ELSE Len(x.v)

----------------------------------------------------------------------------
(* SchemaVersionRegistry (schema_registry.py) *)

\* tuple(map(int, v.split('.'))): [ok, key], ok false when int() raises ValueError
VersionKey(v) ==
    LET parts == SplitChars(Chars(v), ".", <<>>)
    IN  IF \A i \in 1..Len(parts) : IntParses(parts[i])
        THEN [ok |-> TRUE, key |-> [i \in 1..Len(parts) |-> IntOf(parts[i])]]
        ELSE [ok |-> FALSE, key |-> <<>>]

\* the key of versions.sort(): the string itself, compared by code point
LexicalKey(v) == [i \in 1..Len(Chars(v)) |-> CharRank(Chars(v)[i])]

\* the discovery that sorts the names as strings
DiscoverVersionsLexical(versions) ==
    LET found == SelectSeq(versions,
                   LAMBDA n : FileAt(<<"schema", "versions", n, SchemaFileName>>, versions, TRUE).exists)
    IN  Vals(StableSort([i \in 1..Len(found) |-> [key |-> LexicalKey(found[i]), val |-> found[i]]]))

\* _discover_versions: the subdirectories holding a schema file, sorted numerically,
\* or lexically when a name does not parse
DiscoverVersions(versions) ==
    LET found == SelectSeq(versions,
                   LAMBDA n : FileAt(<<"schema", "versions", n, SchemaFileName>>, versions, TRUE).exists)
        numeric == \A i \in 1..Len(found) : VersionKey(found[i]).ok
    IN  IF numeric
        THEN Vals(StableSort([i \in 1..Len(found) |-> [key |-> VersionKey(found[i]).key, val |-> found[i]]]))
        ELSE Vals(StableSort([i \in 1..Len(found) |-> [key |-> LexicalKey(found[i]), val |-> found[i]]]))

\* SchemaVersionRegistry.__init__(schema_dir): schema_dir is None or a Path, root_exists
\* tells whether its versions directory exists and versions lists the entries of it
NewRegistryIn(schema_dir, root_exists, versions) ==
    LET dir == IF schema_dir.t = "NoneType" THEN DEFAULT_SCHEMA_DIR ELSE schema_dir.v
    IN  [schema_dir |-> dir,
         versions_dir |-> Append(dir, "versions"),
         supported |-> IF root_exists THEN DiscoverVersions(versions) ELSE <<>>]

\* SchemaVersionRegistry.__init__ with the default schema_dir
NewRegistry(versions) == NewRegistryIn(None, TRUE, versions)

\* get_supported_versions: a copy of the list, as a Python list of str
GetSupportedVersions(reg) == List([i \in 1..Len(reg.supported) |-> Str(reg.supported[i])])

\* is_version_supported: version in self._supported_versions, for any Python value
IsVersionSupported(reg, version) == InList(version, GetSupportedVersions(reg).v)

\* get_latest_version
GetLatestVersion(reg) ==
    IF Len(reg.supported) = 0 THEN None ELSE Str(reg.supported[Len(reg.supported)])

\* get_schema_path without the membership test: every version has a path
GetSchemaPathUnchecked(reg, version) ==
    [exc |-> "", message |-> None, path |-> reg.versions_dir \o <<version.v, SchemaFileName>>]

\* get_schema_path: [exc, message, path]
GetSchemaPath(reg, version) ==
    IF ~IsVersionSupported(reg, version)
    THEN [exc |-> "ValueError",
          message |-> FStr("Schema version '{version}' is not supported. Available versions: {self._supported_versions}",
                           <<version, GetSupportedVersions(reg)>>),
          path |-> <<>>]
    ELSE [exc |-> "", message |-> None,
          path |-> reg.versions_dir \o <<version.v, SchemaFileName>>]

\* load_schema: [exc, message, json]
LoadSchema(reg, version, versions) ==
    LET p == GetSchemaPath(reg, version)
        f == FileAt(p.path, versions, TRUE)
    IN  IF p.exc # "" THEN [exc |-> p.exc, message |-> p.message, json |-> None]
        ELSE IF ~f.exists
        THEN [exc |-> "FileNotFoundError",
              message |-> FStr("Schema file not found: {schema_path}", <<Path(p.path)>>),
              json |-> None]
        ELSE IF ~f.parses
        THEN [exc |-> "IOError",
              message |-> FStr("Invalid JSON in schema file {schema_path}: {e}", <<Path(p.path)>>),
              json |-> None]
        ELSE [exc |-> "", message |-> None, json |-> f.json]

\* detect_schema_version on an already parsed value: [exc, version].  A str is taken
\* for a path, which in validate's use (the parsed instance) names no file.
DetectSchemaVersion(instance) ==
    CASE instance.t = "str" -> [exc |-> "FileNotFoundError", version |-> None]
      [] instance.t = "dict" -> [exc |-> "", version |-> DictGet(instance, "schema_version")]
      [] OTHER -> [exc |-> "TypeError", version |-> None]

----------------------------------------------------------------------------
(* inline_refs (validator.py) *)

\* The keys that occur in schemas and documents, in the order the files write them:
\* a dict is iterated in insertion order, which for a parsed file is the file's order.
AllKeys ==
    <<"$ref", "type", "required", "properties", "const", "items",
      "schema_version", "sj_version", "description", "new_field">>

OrderedKeys(d) == SelectSeq(AllKeys, LAMBDA k : k \in DOMAIN d.v)

EmptyCache == [p \in {} |-> None]

\* a copy() that no value has
HasCopyNever(x) == FALSE

\* whether x.copy() exists: dict and list have it, the other JSON values do not
HasCopy(x) == x.t \in {"dict", "list"}

\* whether a dict is an external reference: "$ref" in schema, a str, not starting with "#"
IsExternalRef(schema) ==
    /\ schema.t = "dict"
    /\ "$ref" \in DOMAIN schema.v
    /\ schema.v["$ref"].t = "str"
    /\ ~IsAnchorRef(schema.v["$ref"].v)

\* inline_refs(schema, base_path, loaded_schemas_cache): [val, cache, exc].  fsys is the
\* file system [versions, legacy].  exc names an exception that leaves the call.
RECURSIVE InlineRefs(_, _, _, _)
\* the file that ref_path names: a file of the directory of reference files when the
\* file system has one (fsys.refs: file name -> parsed content), else a schema file
FileIn(fsys, ref_path) ==
    IF "refs" \in DOMAIN fsys /\ Len(ref_path) = 2 /\ ref_path[1] = "refs"
    THEN IF ref_path[2] \in DOMAIN fsys.refs
         THEN LET held == fsys.refs[ref_path[2]]
                  parses == held.t \notin {"directory", "garbage"}
              IN  [exists |-> TRUE, isfile |-> held.t # "directory", parses |-> parses,
                   json |-> IF parses THEN held ELSE None]
         ELSE [exists |-> FALSE, isfile |-> FALSE, parses |-> FALSE, json |-> None]
    ELSE FileAt(ref_path, fsys.versions, fsys.legacy)

RECURSIVE InlineDictKeys(_, _, _, _, _, _)
RECURSIVE InlineListItems(_, _, _, _, _)

InlineDictKeys(d, keys, base, cache, fsys, acc) ==
    IF Len(keys) = 0 THEN [val |-> Dict(acc), cache |-> cache, exc |-> "", loads |-> <<>>]
    ELSE Bind(InlineRefs(d.v[keys[1]], base, cache, fsys), LAMBDA r :
           IF r.exc # "" THEN r
           ELSE Bind(InlineDictKeys(d, Tail(keys), base, r.cache, fsys, (keys[1] :> r.val) @@ acc),
                  LAMBDA rest : [rest EXCEPT !.loads = r.loads \o @]))

InlineListItems(items, base, cache, fsys, acc) ==
    IF Len(items) = 0 THEN [val |-> List(acc), cache |-> cache, exc |-> "", loads |-> <<>>]
    ELSE Bind(InlineRefs(items[1], base, cache, fsys), LAMBDA r :
           IF r.exc # "" THEN r
           ELSE Bind(InlineListItems(Tail(items), base, r.cache, fsys, Append(acc, r.val)),
                  LAMBDA rest : [rest EXCEPT !.loads = r.loads \o @]))

\* inline_refs(schema, base_path, loaded_schemas_cache): [val, cache, exc, loads], the
\* value returned, the cache as the call leaves it, the exception that escapes, and
\* the files opened, in order
InlineRefs(schema, base, cache, fsys) ==
    IF IsExternalRef(schema)
    THEN LET ref_path == Resolve(base, RefSegs(schema.v["$ref"].v))
             f == FileIn(fsys, ref_path)
         IN  IF ref_path \in DOMAIN cache
             THEN \* cache hit: loaded_schemas_cache[cache_key].copy(), outside the try
                  IF HasCopy(cache[ref_path])
                  THEN [val |-> cache[ref_path], cache |-> cache, exc |-> "", loads |-> <<>>]
                  ELSE [val |-> None, cache |-> cache, exc |-> "AttributeError", loads |-> <<>>]
             ELSE IF f.exists /\ f.isfile
             THEN IF ~f.parses
                  THEN [val |-> schema, cache |-> cache, exc |-> "", loads |-> <<ref_path>>]
                  ELSE Bind(InlineRefs(f.json, Parent(ref_path), (ref_path :> f.json) @@ cache, fsys),
                         LAMBDA r :
                           LET cache2 == (ref_path :> r.val) @@ r.cache
                               loads == <<ref_path>> \o r.loads
                           IN  IF r.exc # ""
                               THEN \* except Exception: keep the original $ref
                                    [val |-> schema, cache |-> r.cache, exc |-> "", loads |-> loads]
                               ELSE IF HasCopy(r.val)
                               THEN [val |-> r.val, cache |-> cache2, exc |-> "", loads |-> loads]
                               ELSE [val |-> schema, cache |-> cache2, exc |-> "", loads |-> loads])
             ELSE [val |-> schema, cache |-> cache, exc |-> "", loads |-> <<>>]
    ELSE IF schema.t = "dict"
    THEN InlineDictKeys(schema, OrderedKeys(schema), base, cache, fsys, <<>>)
    ELSE IF schema.t = "list"
    THEN InlineListItems(schema.v, base, cache, fsys, <<>>)
    ELSE [val |-> schema, cache |-> cache, exc |-> "", loads |-> <<>>]

----------------------------------------------------------------------------
(* ValidationErrorDetail (errors.py) *)

\* HAS_FUZZY: whether the optional fuzzywuzzy import succeeded
HAS_FUZZY == FALSE

\* "', '".join(xs) raises TypeError unless every element is a str
Joinable(xs) == \A i \in 1..Len(xs.v) : xs.v[i].t = "str"

\* _generate_suggestion: [exc, suggestion]
GenerateSuggestion(validatorName, validator_value, instance_value) ==
    LET ok(x) == [exc |-> "", suggestion |-> x]
        raised(e) == [exc |-> e, suggestion |-> None]
        lenOr(types) == IF instance_value.t \in types THEN Num(PyLen(instance_value)) ELSE Str("N/A")
    IN  CASE validatorName = "required" ->
               IF validator_value.t = "list"
               THEN IF Joinable(validator_value)
                    THEN ok(FStr("Ensure required property or properties ('{props_str}') are present.",
                                 <<Join("', '", validator_value)>>))
                    ELSE raised("TypeError")
               ELSE ok(Str("Ensure required property is present (check schema for details)."))
          [] validatorName = "type" ->
               IF validator_value.t = "list"
               THEN IF Joinable(validator_value)
                    THEN ok(FStr("Change value type from '{actual_type}' to one of: '{types_str}'.",
                                 <<Str(instance_value.t), Join("', '", validator_value)>>))
                    ELSE raised("TypeError")
               ELSE IF validator_value.t = "str"
               THEN ok(FStr("Change value type from '{actual_type}' to '{expected_types}'.",
                            <<Str(instance_value.t), validator_value>>))
               ELSE ok(FStr("Check schema for expected type(s) instead of '{actual_type}'.",
                            <<Str(instance_value.t)>>))
          [] validatorName = "pattern" ->
               ok(FStr("Ensure value matches the required regex pattern: '{pattern}'.", <<validator_value>>))
          [] validatorName = "enum" ->
               IF validator_value.t = "list"
               THEN ok(FStr("Value must be one of: {allowed_values}.", <<validator_value>>))
               ELSE ok(Str("Ensure value is one of the allowed options (check schema)."))
          [] validatorName = "minLength" ->
               ok(FStr("Ensure value has at least {min_len} characters/items (currently {actual_len}).",
                       <<validator_value, lenOr({"str", "list"})>>))
          [] validatorName = "maxLength" ->
               ok(FStr("Ensure value has at most {max_len} characters/items (currently {actual_len}).",
                       <<validator_value, lenOr({"str", "list"})>>))
          [] validatorName = "minItems" ->
               ok(FStr("Ensure array has at least {min_num} items (currently {actual_num}).",
                       <<validator_value, lenOr({"list"})>>))
          [] validatorName = "maxItems" ->
               ok(FStr("Ensure array has at most {max_num} items (currently {actual_num}).",
                       <<validator_value, lenOr({"list"})>>))
          [] validatorName = "minimum" ->
               ok(FStr("Ensure value is at least {min_val}.", <<validator_value>>))
          [] validatorName = "maximum" ->
               ok(FStr("Ensure value is at most {max_val}.", <<validator_value>>))
          [] validatorName = "exclusiveMinimum" ->
               ok(FStr("Ensure value is strictly greater than {ex_min_val}.", <<validator_value>>))
          [] validatorName = "exclusiveMaximum" ->
               ok(FStr("Ensure value is strictly less than {ex_max_val}.", <<validator_value>>))
          [] OTHER -> ok(None)

\* ValidationErrorDetail(...): the dataclass constructor followed by __post_init__.
\* [exc, detail]
NewErrorDetail(message, path, schema_path, validatorName, validator_value, instance_value) ==
    LET g == GenerateSuggestion(validatorName, validator_value, instance_value)
    IN  [exc |-> g.exc,
         detail |-> [message |-> message,
                     path |-> path,
                     schema_path |-> schema_path,
                     validator |-> validatorName,
                     validator_value |-> validator_value,
                     instance_value |-> instance_value,
                     context |-> <<>>,
                     suggestion |-> g.suggestion]]

----------------------------------------------------------------------------
(* The JSON Schema engine the Validator delegates to (jsonschema's         *)
(* Draft202012Validator), for the keywords the schemas here use.           *)

JsonTypeNames == {"object", "string", "array", "null", "boolean", "integer", "number"}

\* whether a Python value is of a JSON Schema type
IsType(instance, typeName) ==
    CASE typeName = "object" -> instance.t = "dict"
      [] typeName = "string" -> instance.t = "str"
      [] typeName = "array" -> instance.t = "list"
      [] typeName = "null" -> instance.t = "NoneType"
      [] typeName = "boolean" -> instance.t = "bool"
      [] typeName = "integer" -> instance.t = "int"
      [] typeName = "number" -> instance.t \in {"int", "float"}
      [] OTHER -> FALSE

\* Draft202012Validator.check_schema: TRUE when the schema is valid against the
\* metaschema, FALSE when check_schema raises SchemaError
RECURSIVE CheckSchema(_)
CheckSchema(schema) ==
    IF schema.t = "bool" THEN TRUE
    ELSE IF schema.t # "dict" THEN FALSE
    ELSE /\ "type" \in DOMAIN schema.v =>
               LET ty == schema.v["type"]
               IN  \/ ty.t = "str" /\ ty.v \in JsonTypeNames
                   \/ ty.t = "list" /\ \A i \in 1..Len(ty.v) : ty.v[i].t = "str" /\ ty.v[i].v \in JsonTypeNames
         /\ "required" \in DOMAIN schema.v =>
               LET rq == schema.v["required"]
               IN  rq.t = "list" /\ \A i \in 1..Len(rq.v) : rq.v[i].t = "str"
         /\ "properties" \in DOMAIN schema.v =>
               LET pr == schema.v["properties"]
               IN  pr.t = "dict" /\ \A k \in DOMAIN pr.v : CheckSchema(pr.v[k])
         /\ "items" \in DOMAIN schema.v => CheckSchema(schema.v["items"])
         /\ "$ref" \in DOMAIN schema.v => schema.v["$ref"].t = "str"

\* one error of the engine (jsonschema.ValidationError)
EngineError(message, path, schema_path, validatorName, validator_value, instance) ==
    [message |-> message, path |-> path, schema_path |-> schema_path,
     validator |-> validatorName, validator_value |-> validator_value, instance |-> instance]

\* iter_errors(instance): [exc, errors], the errors in the order the engine yields them
\* (keyword by keyword in the schema's order, descending into properties and items).
\* An external $ref left in the schema cannot be resolved when it is reached.
RECURSIVE IterErrors(_, _, _, _)
RECURSIVE KeywordsErrors(_, _, _, _, _)
RECURSIVE PropertiesErrors(_, _, _, _, _)
RECURSIVE ItemsErrors(_, _, _, _, _)

KeywordErrors(kw, schema, instance, path, spath) ==
    LET vv == schema.v[kw]
        none == [exc |-> "", errors |-> <<>>]
        one(e) == [exc |-> "", errors |-> <<e>>]
    IN  CASE kw = "$ref" ->
               IF IsExternalRef(schema) THEN [exc |-> "RefResolutionError", errors |-> <<>>] ELSE none
          [] kw = "type" ->
               LET types == IF vv.t = "list" THEN vv.v ELSE <<vv>>
               IN  IF \E i \in 1..Len(types) : IsType(instance, types[i].v) THEN none
                   ELSE one(EngineError(FStr("{instance!r} is not of type {types}", <<instance, vv>>),
                                        path, Append(spath, Str("type")), "type", vv, instance))
          [] kw = "required" ->
               IF instance.t # "dict" THEN none
               ELSE LET missing == SelectSeq(vv.v, LAMBDA p : p.v \notin DOMAIN instance.v)
                    IN  [exc |-> "",
                         errors |-> [i \in 1..Len(missing) |->
                                       EngineError(FStr("{property!r} is a required property", <<missing[i]>>),
                                                   path, Append(spath, Str("required")), "required", vv, instance)]]
          [] kw = "const" ->
               IF instance = vv THEN none
               ELSE one(EngineError(FStr("{const!r} was expected", <<vv>>),
                                    path, Append(spath, Str("const")), "const", vv, instance))
          [] kw = "properties" ->
               IF instance.t # "dict" THEN none
               ELSE PropertiesErrors(OrderedKeys(vv), vv, instance, path, Append(spath, Str("properties")))
          [] kw = "items" ->
               IF instance.t # "list" THEN none
               ELSE ItemsErrors(1, vv, instance, path, Append(spath, Str("items")))
          [] OTHER -> none

KeywordsErrors(kws, schema, instance, path, spath) ==
    IF Len(kws) = 0 THEN [exc |-> "", errors |-> <<>>]
    ELSE Bind(KeywordErrors(kws[1], schema, instance, path, spath), LAMBDA r :
           IF r.exc # "" THEN r
           ELSE Bind(KeywordsErrors(Tail(kws), schema, instance, path, spath), LAMBDA rest :
                  IF rest.exc # "" THEN [exc |-> rest.exc, errors |-> r.errors]
                  ELSE [exc |-> "", errors |-> r.errors \o rest.errors]))

PropertiesErrors(keys, props, instance, path, spath) ==
    IF Len(keys) = 0 THEN [exc |-> "", errors |-> <<>>]
    ELSE Bind(IF keys[1] \in DOMAIN instance.v
              THEN IterErrors(props.v[keys[1]], instance.v[keys[1]],
                              Append(path, Str(keys[1])), Append(spath, Str(keys[1])))
              ELSE [exc |-> "", errors |-> <<>>], LAMBDA r :
           IF r.exc # "" THEN r
           ELSE Bind(PropertiesErrors(Tail(keys), props, instance, path, spath), LAMBDA rest :
                  IF rest.exc # "" THEN [exc |-> rest.exc, errors |-> r.errors]
                  ELSE [exc |-> "", errors |-> r.errors \o rest.errors]))

ItemsErrors(i, itemSchema, instance, path, spath) ==
    IF i > Len(instance.v) THEN [exc |-> "", errors |-> <<>>]
    ELSE Bind(IterErrors(itemSchema, instance.v[i], Append(path, Num(i - 1)), spath), LAMBDA r :
           IF r.exc # "" THEN r
           ELSE Bind(ItemsErrors(i + 1, itemSchema, instance, path, spath), LAMBDA rest :
                  IF rest.exc # "" THEN [exc |-> rest.exc, errors |-> r.errors]
                  ELSE [exc |-> "", errors |-> r.errors \o rest.errors]))

IterErrors(schema, instance, path, spath) ==
    IF schema.t # "dict" THEN [exc |-> "", errors |-> <<>>]
    ELSE KeywordsErrors(OrderedKeys(schema), schema, instance, path, spath)

\* The sort key of an error path (a deque of property names and indices): the elements
\* in turn, each name as its code points and each index as itself, closed by -1, which
\* orders the encodings as Python orders the deques.
RECURSIVE PathKey(_)
PathKey(path) ==
    IF Len(path) = 0 THEN <<>>
    ELSE (IF path[1].t = "str"
          THEN [i \in 1..Len(Chars(path[1].v)) |-> CharRank(Chars(path[1].v)[i])]
          ELSE <<path[1].v>>) \o <<-1>> \o PathKey(Tail(path))

\* whether comparing two paths compares a name with an index (TypeError in Python)
RECURSIVE PathsIncomparable(_, _)
PathsIncomparable(p, q) ==
    /\ Len(p) > 0
    /\ Len(q) > 0
    /\ \/ p[1].t # q[1].t
       \/ p[1] = q[1] /\ PathsIncomparable(Tail(p), Tail(q))

\* the errors kept in the order the engine yields them
UnsortedByPath(errors) == [exc |-> "", errors |-> errors]

\* sorted(errors, key=lambda e: e.path): [exc, errors]
SortedByPath(errors) ==
    IF \E i, j \in 1..Len(errors) : PathsIncomparable(errors[i].path, errors[j].path)
    THEN [exc |-> "TypeError", errors |-> <<>>]
    ELSE [exc |-> "",
          errors |-> Vals(StableSort([i \in 1..Len(errors) |->
                                        [key |-> PathKey(errors[i].path), val |-> errors[i]]]))]

----------------------------------------------------------------------------
(* Validator (validator.py) *)

\* a pathlib.Path argument

\* the segments of the strings that callers pass where a path is expected; a string
\* of JSON text is one long file name
StrAsPath(text) == <<text>>

\* the files of documents that exist under data/
DataFileAt(path) ==
    LET file(j) == [exists |-> TRUE, isfile |-> TRUE, parses |-> TRUE, json |-> j]
    IN  CASE path \in {<<"data", "ok.json">>, <<"data", "ok2.json">>} ->
               file(Dict([schema_version |-> Str("0.1.0"), description |-> Str("d")]))
          [] path = <<"data", "list.json">> -> file(List(<<>>))
          [] path = <<"data", "text.json">> -> file(Str("d"))
          [] path = <<"data", "sub-01_signalJourney.json">> ->
               file(Dict([schema_version |-> Str("0.2.0"), description |-> Str("d")]))
          [] path \in {<<"data", "broken.json">>, <<"data", "notes.txt">>} ->
               [exists |-> TRUE, isfile |-> TRUE, parses |-> FALSE, json |-> None]
          [] path \in {<<"data">>, <<"empty">>, <<"bids">>} ->
               [exists |-> TRUE, isfile |-> FALSE, parses |-> FALSE, json |-> None]
          [] OTHER -> [exists |-> FALSE, isfile |-> FALSE, parses |-> FALSE, json |-> None]

\* the entries of a directory of documents, in the order the file system yields them
DirEntries(path) ==
    IF path = <<"data">>
    THEN <<"ok.json", "notes.txt", "sub-01_signalJourney.json", "list.json", "broken.json",
           "ok2.json">>
    ELSE <<>>

\* the file names that end with ".json", and those that end with "_signalJourney.json"
EndsWithJson(name) == name # "notes.txt"
EndsWithSignalJourneyJson(name) == name = "sub-01_signalJourney.json"

\* _get_schema_path: the path of a schema given as Path or str, None for a dict
GetSchemaPathOf(schema_input) ==
    CASE schema_input.t = "NoneType" -> Path(DEFAULT_SCHEMA_PATH)
      [] schema_input.t = "Path" -> schema_input
      [] schema_input.t = "str" -> Path(StrAsPath(schema_input.v))
      [] OTHER -> None

\* _load_schema_dict: [exc, json]
LoadSchemaDict(schema_input, schema_path, fsys) ==
    IF schema_input.t = "dict" THEN [exc |-> "", json |-> schema_input]
    ELSE LET load_path == IF schema_path.t = "Path" THEN schema_path.v ELSE DEFAULT_SCHEMA_PATH
             f == FileAt(load_path, fsys.versions, fsys.legacy)
         IN  IF ~f.exists THEN [exc |-> "FileNotFoundError", json |-> None]
             ELSE IF ~f.parses THEN [exc |-> "IOError", json |-> None]
             ELSE [exc |-> "", json |-> f.json]

\* The choice of the initial schema in __init__: [exc, schema_version, initial, base].
InitialSchema(schema, schema_version, reg, fsys) ==
    LET failed(e) == [exc |-> e, schema_version |-> schema_version, initial |-> None, base |-> <<>>]
    IN  IF schema.t # "NoneType"
        THEN \* use the provided schema
             LET schema_path == GetSchemaPathOf(schema)
                 l == LoadSchemaDict(schema, schema_path, fsys)
             IN  IF l.exc # "" THEN failed(l.exc)
                 ELSE [exc |-> "", schema_version |-> schema_version, initial |-> l.json,
                       base |-> IF schema_path.t = "Path" THEN Parent(schema_path.v)
                                ELSE Parent(DEFAULT_SCHEMA_PATH)]
        ELSE IF schema_version.t # "NoneType"
        THEN \* use the specific version from the registry
             IF ~IsVersionSupported(reg, schema_version) THEN failed("ValueError")
             ELSE LET l == LoadSchema(reg, schema_version, fsys.versions)
                  IN  IF l.exc # "" THEN failed(l.exc)
                      ELSE [exc |-> "", schema_version |-> schema_version, initial |-> l.json,
                            base |-> Parent(GetSchemaPath(reg, schema_version).path)]
        ELSE \* use the latest version; any failure falls back to the legacy schema, with
             \* _schema_version already set to the latest version
             LET latest == GetLatestVersion(reg)
                 l == LoadSchema(reg, latest, fsys.versions)
                 d == LoadSchemaDict(None, Path(DEFAULT_SCHEMA_PATH), fsys)
             IN  IF l.exc = ""
                 THEN [exc |-> "", schema_version |-> latest, initial |-> l.json,
                       base |-> Parent(GetSchemaPath(reg, latest).path)]
                 ELSE IF d.exc # ""
                 THEN [exc |-> d.exc, schema_version |-> latest, initial |-> None, base |-> <<>>]
                 ELSE [exc |-> "", schema_version |-> latest, initial |-> d.json,
                       base |-> Parent(DEFAULT_SCHEMA_PATH)]

\* Validator.__init__: [exc, schema, schema_version, registry].  exc "" is a constructed
\* Validator, whose _validator is the engine over schema.
NewValidator(schema, schema_version, fsys) ==
    Bind(NewRegistry(fsys.versions), LAMBDA reg :
      Bind(InitialSchema(schema, schema_version, reg, fsys), LAMBDA i :
        LET failed(e) == [exc |-> e, schema |-> None, schema_version |-> i.schema_version,
                          registry |-> reg]
        IN  IF i.exc # "" THEN failed(i.exc)
            ELSE Bind(InlineRefs(i.initial, i.base, EmptyCache, fsys), LAMBDA inl :
                   IF inl.exc # "" THEN failed(inl.exc)
                   ELSE IF ~CheckSchema(inl.val) THEN failed("SignalJourneyValidationError")
                   ELSE [exc |-> "", schema |-> inl.val, schema_version |-> i.schema_version,
                         registry |-> reg])))

\* _create_validator_for_version: [exc, schema], the engine being the one over schema
CreateValidatorForVersion(self, version, fsys) ==
    IF ~IsVersionSupported(self.registry, version) THEN [exc |-> "ValueError", schema |-> None]
    ELSE Bind(LoadSchema(self.registry, version, fsys.versions), LAMBDA l :
           IF l.exc # "" THEN [exc |-> l.exc, schema |-> None]
           ELSE Bind(InlineRefs(l.json, Parent(GetSchemaPath(self.registry, version).path),
                                EmptyCache, fsys), LAMBDA inl :
                  IF inl.exc # "" THEN [exc |-> inl.exc, schema |-> None]
                  ELSE IF ~CheckSchema(inl.val) THEN [exc |-> "SchemaError", schema |-> None]
                  ELSE [exc |-> "", schema |-> inl.val]))

\* _validate_bids_context: the placeholder, which reports no error
ValidateBidsContext(instance, file_path, bids_root) == <<>>

\* The outcome of a validate call.  kind is "return" (errors is the returned list) or
\* "raise" (exc is the exception class, message its text, errors its errors attribute,
\* empty for an exception that has none).  ran tells whether the engine's iter_errors
\* was run on the instance, used is the schema it was run with, built the version a
\* validator was created for during the call (None when none was).
Returned(errors, ran, used, built) ==
    [kind |-> "return", exc |-> "", message |-> None, errors |-> errors,
     ran |-> ran, used |-> used, built |-> built]

Raised(exc, message, errors, ran, used, built) ==
    [kind |-> "raise", exc |-> exc, message |-> message, errors |-> errors,
     ran |-> ran, used |-> used, built |-> built]

\* "--- Load Instance ---" of validate: [exc, message, instance]
LoadInstance(data) ==
    IF data.t \in {"Path", "str"}
    THEN LET file_path == IF data.t = "Path" THEN data.v ELSE StrAsPath(data.v)
             f == DataFileAt(file_path)
         IN  IF ~f.exists
             THEN [exc |-> "FileNotFoundError", message |-> FStr("Data file not found: {file_path}", <<data>>),
                   instance |-> None]
             ELSE IF ~f.parses
             THEN [exc |-> "SignalJourneyValidationError",
                   message |-> FStr("Error decoding data JSON from {file_path}: {e}", <<data>>),
                   instance |-> None]
             ELSE [exc |-> "", message |-> None, instance |-> f.json]
    ELSE IF data.t = "dict" THEN [exc |-> "", message |-> None, instance |-> data]
    ELSE [exc |-> "TypeError", message |-> Str("Data must be a Path, string, or dictionary."),
          instance |-> None]

\* "--- Schema Validation ---" of validate with the validator selected (the engine over
\* schema): [exc, errors], the errors as ValidationErrorDetail in the order of their paths
SchemaValidation(schema, instance) ==
    Bind(IterErrors(schema, instance, <<>>, <<>>), LAMBDA it :
      IF it.exc # "" THEN [exc |-> it.exc, errors |-> <<>>]
      ELSE Bind(SortedByPath(it.errors), LAMBDA sorted :
             IF sorted.exc # "" THEN [exc |-> sorted.exc, errors |-> <<>>]
             ELSE Bind([i \in 1..Len(sorted.errors) |->
                          LET e == sorted.errors[i]
                          IN  NewErrorDetail(e.message, e.path, e.schema_path, e.validator,
                                             e.validator_value, e.instance)], LAMBDA made :
                    IF \E i \in 1..Len(made) : made[i].exc # ""
                    THEN [exc |-> "TypeError", errors |-> <<>>]
                    ELSE [exc |-> "", errors |-> [i \in 1..Len(made) |-> made[i].detail]])))

\* the result handling that raises whenever raise_exceptions is set
ResultHandlingAlwaysRaises(all_errors, raise_exceptions, schema, built) ==
    IF raise_exceptions
    THEN Raised("SignalJourneyValidationError", Str("Validation failed."), all_errors,
                TRUE, schema, built)
    ELSE Returned(all_errors, TRUE, schema, built)

\* the result handling that raises on the first failure, attaching that failure only
ResultHandlingFirstOnly(all_errors, raise_exceptions, schema, built) ==
    IF Len(all_errors) > 0
    THEN IF raise_exceptions
         THEN Raised("SignalJourneyValidationError", Str("Validation failed."), <<all_errors[1]>>,
                     TRUE, schema, built)
         ELSE Returned(all_errors, TRUE, schema, built)
    ELSE Returned(<<>>, TRUE, schema, built)

\* "--- Result Handling ---" of validate
ResultHandling(all_errors, raise_exceptions, schema, built) ==
    IF Len(all_errors) > 0
    THEN IF raise_exceptions
         THEN Raised("SignalJourneyValidationError", Str("Validation failed."), all_errors,
                     TRUE, schema, built)
         ELSE Returned(all_errors, TRUE, schema, built)
    ELSE Returned(<<>>, TRUE, schema, built)

\* "--- Schema Validation ---", the BIDS pass and "--- Result Handling ---" of validate,
\* with the validator selected (the engine over schema)
RunValidation(self, schema, instance, raise_exceptions, bids_context, built) ==
    Bind(SchemaValidation(schema, instance), LAMBDA sv :
      LET bids_errors == IF Truthy(bids_context)
                         THEN ValidateBidsContext(instance, None, bids_context)
                         ELSE <<>>
          wrapped(text, e) == Raised("SignalJourneyValidationError", FStr(text, <<Str(e)>>), <<>>,
                                     TRUE, schema, built)
      IN  IF sv.exc = "RefResolutionError"
          THEN wrapped("Schema validation failed: Unexpectedly could not resolve reference '{failed_ref}'",
                       sv.exc)
          ELSE IF sv.exc # ""
          THEN wrapped("An unexpected error occurred during schema validation: {e}", sv.exc)
          ELSE ResultHandling(sv.errors \o bids_errors, raise_exceptions, schema, built))

\* The handler "except Exception as e" of the version detection block: e is the
\* exception caught, with its text
DetectionFailed(instance, raise_exceptions, e, text) ==
    LET error_msg == FStr("Error during schema version detection: {e}", <<Str(e), text>>)
    IN  IF raise_exceptions
        THEN Raised("SignalJourneyValidationError", error_msg, <<>>, FALSE, None, None)
        ELSE IF instance.t # "dict"
        THEN \* instance.get("schema_version") on a value that has no get
             Raised("AttributeError", Str("object has no attribute 'get'"), <<>>, FALSE, None, None)
        ELSE Returned(<<NewErrorDetail(error_msg, <<Str("schema_version")>>, <<>>, "version_detection",
                                       None, DictGet(instance, "schema_version")).detail>>,
                      FALSE, None, None)

\* Whether validate takes a detected version for declared: "if detected_version:"
VersionDeclared(detected_version) == Truthy(detected_version)

\* the selection that keeps the validator made at construction for every document
NeedsOtherValidatorNever(self, detected_version) == FALSE

\* Whether validate builds a validator for the detected version:
\* "if detected_version != self._schema_version:"
NeedsOtherValidator(self, detected_version) == detected_version # self.schema_version

\* "--- Result Handling ---" for a synthetic error made inside the detection block: with
\* raise_exceptions the SignalJourneyValidationError raised there is caught by the
\* block's own "except Exception" and raised again, wrapped
Synthetic(instance, raise_exceptions, error_msg, validatorName, validator_value, instance_value) ==
    IF raise_exceptions
    THEN DetectionFailed(instance, raise_exceptions, "SignalJourneyValidationError", error_msg)
    ELSE Returned(<<NewErrorDetail(error_msg, <<Str("schema_version")>>, <<>>, validatorName,
                                   validator_value, instance_value).detail>>,
                  FALSE, None, None)

\* "--- Version Detection and Validator Selection ---" of validate, on the loaded instance
SelectAndRun(self, instance, raise_exceptions, bids_context, fsys) ==
    Bind(DetectSchemaVersion(instance), LAMBDA det :
      LET detected_version == det.version
          supported == GetSupportedVersions(self.registry)
      IN  IF det.exc \in {"FileNotFoundError", "IOError"}
          THEN Raised(det.exc, FStr("File not found: {file_path}", <<instance>>), <<>>, FALSE, None, None)
          ELSE IF det.exc # ""
          THEN DetectionFailed(instance, raise_exceptions, det.exc,
                               Str("Data must be a Path, string, or dictionary."))
          ELSE IF VersionDeclared(detected_version)
          THEN IF ~IsVersionSupported(self.registry, detected_version)
               THEN Synthetic(instance, raise_exceptions,
                              FStr("Detected schema version '{detected_version}' is not supported. Available versions: {supported}",
                                   <<detected_version, supported>>),
                              "version_support", supported, detected_version)
               ELSE IF NeedsOtherValidator(self, detected_version)
               THEN Bind(CreateValidatorForVersion(self, detected_version, fsys), LAMBDA other :
                      IF other.exc \in {"FileNotFoundError", "IOError"}
                      THEN Raised(other.exc, FStr("Schema file: {e}", <<detected_version>>), <<>>,
                                  FALSE, None, detected_version)
                      ELSE IF other.exc # ""
                      THEN [DetectionFailed(instance, raise_exceptions, other.exc, Str(other.exc))
                              EXCEPT !.built = detected_version]
                      ELSE RunValidation(self, other.schema, instance, raise_exceptions,
                                         bids_context, detected_version))
               ELSE RunValidation(self, self.schema, instance, raise_exceptions, bids_context, None)
          ELSE IF self.schema_version.t = "NoneType"
          THEN Synthetic(instance, raise_exceptions,
                         Str("No schema_version field found in data and no default version configured. Please specify a schema_version in your signalJourney file."),
                         "required", Bool(TRUE), None)
          ELSE RunValidation(self, self.schema, instance, raise_exceptions, bids_context, None))

\* a validate that detects the version whatever auto_detect_version is
ValidateCallAlwaysDetects(self, data, raise_exceptions, bids_context, auto_detect_version, fsys) ==
    Bind(LoadInstance(data), LAMBDA ld :
      IF ld.exc # "" THEN Raised(ld.exc, ld.message, <<>>, FALSE, None, None)
      ELSE SelectAndRun(self, ld.instance, raise_exceptions, bids_context, fsys))

\* Validator.validate(data, raise_exceptions, bids_context, auto_detect_version)
ValidateCall(self, data, raise_exceptions, bids_context, auto_detect_version, fsys) ==
    Bind(LoadInstance(data), LAMBDA ld :
      IF ld.exc # "" THEN Raised(ld.exc, ld.message, <<>>, FALSE, None, None)
      ELSE IF ~auto_detect_version
      THEN RunValidation(self, self.schema, ld.instance, raise_exceptions, bids_context, None)
      ELSE SelectAndRun(self, ld.instance, raise_exceptions, bids_context, fsys))

----------------------------------------------------------------------------
(* The command line (cli.py) *)

\* the options the validate command declares (its click decorators)
DeclaredOptions ==
    {"--schema", "--recursive", "--output-format", "--verbose", "--bids", "--bids-root"}

\* one error of a file's record in the results: the dict built from a ValidationErrorDetail
ErrorDict(error) ==
    [message |-> error.message, path |-> error.path, schema_path |-> error.schema_path,
     validator |-> error.validator, validator_value |-> Repr(error.validator_value),
     instance_value |-> Repr(error.instance_value), suggestion |-> error.suggestion]

\* files_to_validate, from the path argument
FilesToValidate(path, recursive) ==
    LET f == DataFileAt(path.v)
        names == DirEntries(path.v)
        wanted == IF recursive THEN SelectSeq(names, EndsWithSignalJourneyJson)
                  ELSE SelectSeq(names, EndsWithJson)
    IN  IF f.isfile
        THEN IF EndsWithJson(path.v[Len(path.v)]) THEN <<path>> ELSE <<>>
        ELSE [i \in 1..Len(wanted) |-> Path(Append(path.v, wanted[i]))]

\* The body of the loop over files_to_validate for a file validated with the Validator
\* made, out being the outcome of its validate call.  run is [validator_instance, files, overall_success,
\* output, built]: the Validator made so far (None before), the records appended to
\* results["files"], the flag, the lines echoed and the versions validators were built for.
FileStep(run, filepath, made, out, text) ==
    LET record(status, errors) == [filepath |-> filepath, status |-> status, errors |-> errors]
        built == IF out.built.t = "NoneType" THEN run.built ELSE Append(run.built, out.built)
    IN  IF out.kind = "return" /\ Len(out.errors) > 0
        THEN [validator_instance |-> [t |-> "Validator", v |-> made],
              files |-> Append(run.files,
                               record("failed", [i \in 1..Len(out.errors) |-> ErrorDict(out.errors[i])])),
              overall_success |-> FALSE,
              output |-> run.output \o (IF text THEN <<"Validating:", "FAILED">> ELSE <<>>),
              built |-> built]
        ELSE IF out.kind = "return"
        THEN [validator_instance |-> [t |-> "Validator", v |-> made],
              files |-> Append(run.files, record("passed", <<>>)),
              overall_success |-> run.overall_success,
              output |-> run.output \o (IF text THEN <<"Validating:", "PASSED">> ELSE <<>>),
              built |-> built]
        ELSE \* SignalJourneyValidationError, or any other Exception
             [validator_instance |-> [t |-> "Validator", v |-> made],
              files |-> Append(run.files, record("error", <<>>)),
              overall_success |-> FALSE,
              output |-> run.output \o
                         (IF ~text THEN <<>>
                          ELSE IF out.exc = "SignalJourneyValidationError"
                          THEN <<"Validating:", "ERROR", "Validation Error">>
                          ELSE <<"Validating:", "CRITICAL ERROR", "Unexpected Error">>),
              built |-> built]

\* a loop body that, when the Validator could not be made, goes on to the next file and
\* records nothing
InitFailedUnrecorded(run, filepath, made, text) ==
    [validator_instance |-> None,
     files |-> run.files,
     overall_success |-> run.overall_success,
     output |-> run.output \o (IF text THEN <<"Validating:", "CRITICAL ERROR", "Initialization Failed">>
                               ELSE <<>>),
     built |-> run.built]

\* the body of the loop when the Validator could not be made: "continue", the record
\* appended and the flag cleared in json mode only
InitFailed(run, filepath, made, text) ==
    [validator_instance |-> None,
     files |-> IF text THEN run.files
               ELSE Append(run.files,
                           [filepath |-> filepath, status |-> "critical_error",
                            errors |-> <<[message |-> FStr("Validator init failed: {e}", <<Str(made.exc)>>)]>>]),
     overall_success |-> IF text THEN run.overall_success ELSE FALSE,
     output |-> run.output \o (IF text THEN <<"Validating:", "CRITICAL ERROR", "Initialization Failed">>
                               ELSE <<>>),
     built |-> run.built]

\* The loop over files_to_validate.
RECURSIVE CliLoop(_, _, _, _, _, _)
CliLoop(todo, run, schema, bids_context, output_format, fsys) ==
    IF Len(todo) = 0 THEN run
    ELSE Bind(IF run.validator_instance.t = "NoneType" THEN NewValidator(schema, None, fsys)
              ELSE run.validator_instance.v, LAMBDA made :
           Bind(IF made.exc # "" THEN InitFailed(run, todo[1], made, output_format = "text")
                ELSE Bind(ValidateCall(made, todo[1], FALSE, bids_context, TRUE, fsys), LAMBDA out :
                       FileStep(run, todo[1], made, out, output_format = "text")), LAMBDA after :
             CliLoop(Tail(todo), after, schema, bids_context, output_format, fsys)))

\* One run of "signaljourney-validate validate": [exit_code, output, printed, files,
\* selected, built].  options is the set of option names on the command line; printed
\* is the JSON object printed in json mode (None when none is).
CliRun(options, path, schema, recursive, output_format, verbose, bids, bids_root, fsys) ==
    LET done(code, output, printed, files, selected, built) ==
            [exit_code |-> code, output |-> output, printed |-> printed, files |-> files,
             selected |-> selected, built |-> built]
        target == DataFileAt(path.v)
        todo == FilesToValidate(path, recursive)
        text == output_format = "text"
        scanning == IF ~target.isfile /\ text THEN <<"Scanning directory:">> ELSE <<>>
        skipping == IF target.isfile /\ Len(todo) = 0 /\ text THEN <<"Skipping non-JSON file:">> ELSE <<>>
        start == [validator_instance |-> None, files |-> <<>>, overall_success |-> TRUE,
                  output |-> scanning, built |-> <<>>]
    IN  IF \E o \in options : o \notin DeclaredOptions
        THEN \* click rejects the command line before the command runs
             done(2, <<"Error: No such option">>, None, <<>>, <<>>, <<>>)
        ELSE IF ~target.exists
        THEN done(2, <<"Error: Invalid value for 'PATH': does not exist">>, None, <<>>, <<>>, <<>>)
        ELSE IF schema.t = "Path" /\ ~FileAt(schema.v, fsys.versions, fsys.legacy).exists
        THEN done(2, <<"Error: Invalid value for '--schema': does not exist">>, None, <<>>, <<>>, <<>>)
        ELSE IF bids /\ bids_root.t = "NoneType"
        THEN done(1, <<"Error: --bids-root is required when using the --bids flag.">>, None, <<>>, <<>>, <<>>)
        ELSE IF Len(todo) = 0
        THEN done(IF target.isfile THEN 1 ELSE 0,
                  scanning \o skipping \o
                    (IF text /\ ~target.isfile THEN <<"No *_signalJourney.json files found to validate">>
                     ELSE <<>>),
                  IF text THEN None ELSE [overall_success |-> TRUE, files |-> <<>>],
                  <<>>, todo, <<>>)
        ELSE Bind(CliLoop(todo, start, schema, IF bids THEN bids_root ELSE None, output_format, fsys),
               LAMBDA run :
                 done(IF run.overall_success THEN 0 ELSE 1,
                      run.output \o (IF text /\ verbose THEN <<"Overall validation result:">> ELSE <<>>),
                      IF text THEN None
                      ELSE [overall_success |-> run.overall_success, files |-> run.files],
                      run.files, todo, run.built))

----------------------------------------------------------------------------
(* The inputs of the model *)

\* the values of a document's schema_version field; Absent is a document without it
Absent == [t |-> "absent", v |-> "absent"]

DocVersionValues ==
    {Absent, Str(""), Str("0.1.0"), Str("0.2.0"), Str("0.3.0"), Str("0.10.0"), Str("9.9.9")}

DocDescriptionValues == {Absent, Str("d"), Num(5)}

DocNewFieldValues == {Absent, Str("n")}

\* the document with the given fields
Doc(sv, descr, nf) ==
    LET fields == [schema_version |-> sv, description |-> descr, new_field |-> nf]
    IN  Dict([k \in {x \in DOMAIN fields : fields[x] # Absent} |-> fields[k]])

Documents ==
    {Doc(sv, descr, nf) : sv \in DocVersionValues, descr \in DocDescriptionValues, nf \in DocNewFieldValues}

\* a document as JSON text, passed as a str
JsonText == Str("{schema_version: 0.1.0, description: d}")

\* what a caller passes as data
DataArgs ==
    Documents
    \cup {Path(<<"data", n>>) : n \in {"ok.json", "list.json", "text.json", "broken.json", "nothere.json"}}
    \cup {JsonText, List(<<>>)}

BidsArgs == {None, Path(<<"bids">>)}

\* what a caller passes as schema and as schema_version
SchemaArgs == {None, SchemaLegacy, SchemaV030, Path(DEFAULT_SCHEMA_PATH)}

VersionArgs == {None} \cup {Str(n) : n \in VersionNames \cup {"9.9.9"}}

\* what a user puts on the command line
CliVersionArgs == {None, Str("0.1.0")}

CliPaths ==
    {Path(<<"data", "ok.json">>), Path(<<"data", "notes.txt">>), Path(<<"data">>), Path(<<"empty">>),
     Path(<<"data", "nothere.json">>)}

CliSchemaArgs == {None, Path(DEFAULT_SCHEMA_PATH)}

\* the sequences without repetition over a set, of length at most n
RECURSIVE Listings(_, _)
Listings(names, n) ==
    IF n = 0 THEN {<<>>}
    ELSE LET shorter == Listings(names, n - 1)
         IN  shorter \cup {Append(l, x) : l \in shorter, x \in names}

Distinct(l) == \A i, j \in 1..Len(l) : i # j => l[i] # l[j]

----------------------------------------------------------------------------
(* The state machine *)

FileSystem == [versions |-> listing, legacy |-> legacy]

NoValidator == [state |-> "none", schema_arg |-> None, version_arg |-> None, obj |-> None]

NoCall ==
    [kind |-> "none", data |-> None, raise_exceptions |-> FALSE, bids_context |-> None,
     auto_detect_version |-> FALSE, instance |-> None, out |-> None]

NoRun == [state |-> "none"]

\* before any call of get_registry: _registry is None
NoRegistry ==
    [_registry |-> None, made |-> 0, written |-> <<>>,
     calls |-> 0, op |-> "none", arg |-> None, returned |-> None]

NoRegistryCall == [op |-> "none", arg |-> None, result |-> None]

NoInline == [state |-> "none"]

NoProbe == [state |-> "none"]

Init ==
    /\ listing \in {l \in Listings(VersionNames, MaxDirs) : Distinct(l)}
    /\ legacy \in BOOLEAN
    /\ validator = NoValidator
    /\ last = NoCall
    /\ cli = NoRun
    /\ versions_root = TRUE
    /\ registry_global = NoRegistry
    /\ call = NoRegistryCall
    /\ inliner = NoInline
    /\ probe = NoProbe

\* a library caller constructs a Validator
Construct(schema, schema_version) ==
    /\ validator.state = "none"
    /\ cli.state = "none"
    /\ \E obj \in {NewValidator(schema, schema_version, FileSystem)} :
          validator' = [state |-> IF obj.exc = "" THEN "constructed" ELSE "failed",
                        schema_arg |-> schema, version_arg |-> schema_version, obj |-> obj]
    /\ UNCHANGED <<listing, legacy, last, cli, versions_root, registry_global, call, inliner, probe>>

\* a validate that keeps the validator it selected for the document as the Validator's own
ValidateAdopting(data, raise_exceptions, bids_context, auto_detect_version) ==
    /\ validator.state = "constructed"
    /\ last.kind = "none"
    /\ \E out \in {ValidateCall(validator.obj, data, raise_exceptions, bids_context,
                                auto_detect_version, FileSystem)} :
          /\ last' = [kind |-> out.kind, data |-> data, raise_exceptions |-> raise_exceptions,
                      bids_context |-> bids_context, auto_detect_version |-> auto_detect_version,
                      instance |-> LoadInstance(data).instance, out |-> out]
          /\ validator' = IF out.built = None THEN validator
                          ELSE [validator EXCEPT !.obj.schema_version = out.built,
                                                 !.obj.schema = out.used]
    /\ UNCHANGED <<listing, legacy, cli, versions_root, registry_global, call, inliner, probe>>

\* the caller calls validate on its Validator
Validate(data, raise_exceptions, bids_context, auto_detect_version) ==
    /\ validator.state = "constructed"
    /\ last.kind = "none"
    /\ \E out \in {ValidateCall(validator.obj, data, raise_exceptions, bids_context,
                                auto_detect_version, FileSystem)} :
          last' = [kind |-> out.kind, data |-> data, raise_exceptions |-> raise_exceptions,
                   bids_context |-> bids_context, auto_detect_version |-> auto_detect_version,
                   instance |-> LoadInstance(data).instance, out |-> out]
    /\ UNCHANGED <<listing, legacy, validator, cli, versions_root, registry_global, call, inliner, probe>>

\* the caller takes the result (or handles the exception) and may call again
TakeResult ==
    /\ last.kind # "none"
    /\ last' = NoCall
    /\ UNCHANGED <<listing, legacy, validator, cli, versions_root, registry_global, call, inliner, probe>>

\* a user runs the validate command; schema_version is the value given with
\* --schema-version, None when the option is not on the command line
CliValidate(path, schema, schema_version, recursive, output_format, verbose, bids, bids_root) ==
    /\ cli.state = "none"
    /\ validator.state = "none"
    /\ LET options == {"--output-format"}
                      \cup (IF schema # None THEN {"--schema"} ELSE {})
                      \cup (IF schema_version # None THEN {"--schema-version"} ELSE {})
                      \cup (IF recursive THEN {"--recursive"} ELSE {})
                      \cup (IF verbose THEN {"--verbose"} ELSE {})
                      \cup (IF bids THEN {"--bids"} ELSE {})
                      \cup (IF bids_root # None THEN {"--bids-root"} ELSE {})
       IN  cli' = [state |-> "done", options |-> options, path |-> path, schema |-> schema,
                   output_format |-> output_format,
                   run |-> CliRun(options, path, schema, recursive, output_format, verbose, bids,
                                  bids_root, FileSystem)]
    /\ UNCHANGED <<listing, legacy, validator, last, versions_root, registry_global, call, inliner, probe>>

Next ==
    \/ \E schema \in SchemaArgs, schema_version \in VersionArgs : Construct(schema, schema_version)
    \/ \E data \in DataArgs, raise_exceptions \in BOOLEAN, bids_context \in BidsArgs,
          auto_detect_version \in BOOLEAN :
          Validate(data, raise_exceptions, bids_context, auto_detect_version)
    \/ TakeResult
    \/ \E path \in CliPaths, schema \in CliSchemaArgs, schema_version \in CliVersionArgs,
          recursive \in BOOLEAN, output_format \in {"text", "json"}, verbose \in BOOLEAN,
          bids \in BOOLEAN, bids_root \in BidsArgs :
          CliValidate(path, schema, schema_version, recursive, output_format, verbose, bids, bids_root)

Spec == Init /\ [][Next]_vars

----------------------------------------------------------------------------
(* The registry on its own: a SchemaVersionRegistry over a versions        *)
(* directory with any entries, and the calls of its methods                *)

\* SchemaVersionRegistry() over the file system of the state
RegistryNow == NewRegistryIn(None, versions_root, listing)

\* what a caller passes as version to get_schema_path and load_schema
RegistryVersionArgs == {Str(n) : n \in EntryNames \cup {"9.9.9"}}

\* what a caller passes as data to detect_schema_version
DetectArgs ==
    {Dict([schema_version |-> Str("0.1.0")]),
     Dict([schema_version |-> Str("0.2.0"), description |-> Str("d")]),
     Dict([sj_version |-> Str("0.1.0")]),
     Dict([sj_version |-> Str("0.1.0"), description |-> Str("d")]),
     Dict([schema_version |-> Str("0.2.0"), sj_version |-> Str("0.1.0")]),
     Dict([description |-> Str("d")]),
     Dict([schema_version |-> Num(1)]),
     Str("d"), List(<<>>), Num(1)}

\* a versions directory with any entries, or none; nothing has been called
RegistryInit ==
    /\ versions_root \in BOOLEAN
    /\ listing \in {l \in Listings(EntryNames, MaxEntries) : Distinct(l) /\ (~versions_root => l = <<>>)}
    /\ legacy = TRUE
    /\ validator = NoValidator
    /\ last = NoCall
    /\ cli = NoRun
    /\ registry_global = NoRegistry
    /\ call = NoRegistryCall
    /\ inliner = NoInline
    /\ probe = NoProbe

\* a call with its argument and what it returned or raised
RegistryCall(op, arg, result) == [op |-> op, arg |-> arg, result |-> result]

CallGetSupportedVersions ==
    /\ call.op = "none"
    /\ call' = RegistryCall("get_supported_versions", None, GetSupportedVersions(RegistryNow))
    /\ UNCHANGED <<listing, legacy, validator, last, cli, versions_root, registry_global, inliner, probe>>

CallGetLatestVersion ==
    /\ call.op = "none"
    /\ call' = RegistryCall("get_latest_version", None, GetLatestVersion(RegistryNow))
    /\ UNCHANGED <<listing, legacy, validator, last, cli, versions_root, registry_global, inliner, probe>>

CallGetSchemaPath(version) ==
    /\ call.op = "none"
    /\ call' = RegistryCall("get_schema_path", version, GetSchemaPath(RegistryNow, version))
    /\ UNCHANGED <<listing, legacy, validator, last, cli, versions_root, registry_global, inliner, probe>>

CallLoadSchema(version) ==
    /\ call.op = "none"
    /\ call' = RegistryCall("load_schema", version, LoadSchema(RegistryNow, version, listing))
    /\ UNCHANGED <<listing, legacy, validator, last, cli, versions_root, registry_global, inliner, probe>>

CallDetectSchemaVersion(data) ==
    /\ call.op = "none"
    /\ call' = RegistryCall("detect_schema_version", data, DetectSchemaVersion(data))
    /\ UNCHANGED <<listing, legacy, validator, last, cli, versions_root, registry_global, inliner, probe>>

RegistryNext ==
    \/ CallGetSupportedVersions
    \/ CallGetLatestVersion
    \/ \E version \in RegistryVersionArgs : CallGetSchemaPath(version)
    \/ \E version \in RegistryVersionArgs : CallLoadSchema(version)
    \/ \E data \in DetectArgs : CallDetectSchemaVersion(data)

RegistrySpec == RegistryInit /\ [][RegistryNext]_vars

----------------------------------------------------------------------------
(* The process-wide registry: the module global _registry, get_registry and *)
(* the module's helper functions                                            *)

\* at most this many calls of get_registry in one process
MaxCalls == 3

\* the entries of the versions directory of a schema directory
RootListing(dir) ==
    CASE dir = <<"custom_a">> -> <<"0.2.0", "0.1.0">>
      [] dir = <<"custom_b">> -> <<"0.10.0", "0.2.0", "empty">>
      [] OTHER -> listing

\* what a caller passes as schema_dir
DirArgs == {None, Path(DEFAULT_SCHEMA_DIR), Path(<<"custom_a">>), Path(<<"custom_b">>)}

\* a SchemaVersionRegistry object: its identity and its fields
NewRegistryObject(id, schema_dir) ==
    LET dir == IF schema_dir.t = "NoneType" THEN DEFAULT_SCHEMA_DIR ELSE schema_dir.v
    IN  [id |-> id, obj |-> NewRegistryIn(schema_dir, TRUE, RootListing(dir))]

\* a get_registry that builds the registry on the first call only
GetRegistryBuildsOnce(g, op, schema_dir) ==
    LET build == g._registry = None
        reg == IF build THEN NewRegistryObject(g.made + 1, schema_dir) ELSE g._registry
    IN  [_registry |-> reg,
         made |-> IF build THEN g.made + 1 ELSE g.made,
         written |-> IF build THEN Append(g.written, reg.obj.schema_dir) ELSE g.written,
         calls |-> g.calls + 1, op |-> op, arg |-> schema_dir, returned |-> reg]

\* get_registry(schema_dir) called by op in the module state g: the module state after
\* it, with the registry returned
GetRegistry(g, op, schema_dir) ==
    LET build == \/ g._registry = None
                 \/ schema_dir.t # "NoneType" /\ schema_dir.v # g._registry.obj.schema_dir
        reg == IF build THEN NewRegistryObject(g.made + 1, schema_dir) ELSE g._registry
    IN  [_registry |-> reg,
         made |-> IF build THEN g.made + 1 ELSE g.made,
         written |-> IF build THEN Append(g.written, reg.obj.schema_dir) ELSE g.written,
         calls |-> g.calls + 1, op |-> op, arg |-> schema_dir, returned |-> reg]

\* the packaged schema directory with any versions; no registry yet
SingletonInit ==
    /\ versions_root = TRUE
    /\ listing \in {l \in Listings(VersionNames, MaxDirs) : Distinct(l)}
    /\ legacy = TRUE
    /\ validator = NoValidator
    /\ last = NoCall
    /\ cli = NoRun
    /\ registry_global = NoRegistry
    /\ call = NoRegistryCall
    /\ inliner = NoInline
    /\ probe = NoProbe

\* a call of a function of the module: get_registry, then the method on its result
CallGetRegistry(schema_dir) ==
    /\ registry_global.calls < MaxCalls
    /\ \E g \in {GetRegistry(registry_global, "get_registry", schema_dir)} :
          registry_global' = [g EXCEPT !.returned = g._registry]
    /\ UNCHANGED <<listing, legacy, validator, last, cli, versions_root, call, inliner, probe>>

HelperGetSupportedVersions ==
    /\ registry_global.calls < MaxCalls
    /\ \E g \in {GetRegistry(registry_global, "get_supported_versions", None)} :
          registry_global' = [g EXCEPT !.returned = GetSupportedVersions(g._registry.obj)]
    /\ UNCHANGED <<listing, legacy, validator, last, cli, versions_root, call, inliner, probe>>

HelperIsVersionSupported(version) ==
    /\ registry_global.calls < MaxCalls
    /\ \E g \in {GetRegistry(registry_global, "is_version_supported", None)} :
          registry_global' = [g EXCEPT !.returned = [version |-> version,
                                answer |-> IsVersionSupported(g._registry.obj, version)]]
    /\ UNCHANGED <<listing, legacy, validator, last, cli, versions_root, call, inliner, probe>>

HelperLoadSchemaForVersion(version) ==
    /\ registry_global.calls < MaxCalls
    /\ \E g \in {GetRegistry(registry_global, "load_schema_for_version", None)} :
          registry_global' = [g EXCEPT !.returned = [version |-> version,
                                answer |-> LoadSchema(g._registry.obj, version,
                                                      RootListing(g._registry.obj.schema_dir))]]
    /\ UNCHANGED <<listing, legacy, validator, last, cli, versions_root, call, inliner, probe>>

SingletonNext ==
    \/ \E schema_dir \in DirArgs : CallGetRegistry(schema_dir)
    \/ HelperGetSupportedVersions
    \/ \E version \in {Str("0.1.0"), Str("0.10.0")} : HelperIsVersionSupported(version)
    \/ \E version \in {Str("0.1.0"), Str("0.10.0")} : HelperLoadSchemaForVersion(version)

SingletonSpec == SingletonInit /\ [][SingletonNext]_vars

----------------------------------------------------------------------------
(* inline_refs on its own: a directory refs/ of schema files that refer to  *)
(* one another, and a call of inline_refs with refs/ as base path           *)

\* at most this many files in refs/
MaxRefFiles == 2

RefFileNames ==
    LET names == <<"a.json", "b.json", "c.json", "d.json">>
    IN  {names[i] : i \in 1..MaxRefFiles}

\* a mapping that is an external reference to a file
RefTo(name) == Dict("$ref" :> Str(name))

\* an entry of refs/ that is a directory, and a file whose text is not JSON
Directory == [t |-> "directory", v |-> "/"]
Garbage == [t |-> "garbage", v |-> "{"]

\* what an entry of refs/ may hold: a schema without references, the boolean schema
\* true, an array, no JSON, a reference, or a schema with a reference in it; or the
\* entry is a directory
RefContents ==
    {TextDefinition, Bool(TRUE), List(<<Str("d")>>), Garbage, Directory}
    \cup {RefTo(n) : n \in RefFileNames}
    \cup {Dict([items |-> RefTo(n)]) : n \in RefFileNames}

\* what a caller passes as schema
InlineArgs ==
    {Dict([items |-> RefTo(n)]) : n \in RefFileNames \cup {"nothere.json"}}
    \cup {List(<<RefTo(n), RefTo(n)>>) : n \in RefFileNames}
    \cup {Str("d")}

\* any files in refs/; inline_refs has not been called
InlineInit ==
    /\ inliner \in {[state |-> "ready", refs |-> f] :
                      f \in UNION {[names -> RefContents] : names \in SUBSET RefFileNames}}
    /\ versions_root = TRUE
    /\ listing = <<>>
    /\ legacy = FALSE
    /\ validator = NoValidator
    /\ last = NoCall
    /\ cli = NoRun
    /\ registry_global = NoRegistry
    /\ call = NoRegistryCall
    /\ probe = NoProbe

\* inline_refs(schema, Path("refs"), {})
CallInlineRefs(schema) ==
    /\ inliner.state = "ready"
    /\ \E out \in {InlineRefs(schema, <<"refs">>, EmptyCache,
                                [versions |-> <<>>, legacy |-> FALSE, refs |-> inliner.refs])} :
          inliner' = [state |-> "done", refs |-> inliner.refs, schema |-> schema, out |-> out]
    /\ UNCHANGED <<listing, legacy, validator, last, cli, versions_root, registry_global, call, probe>>

\* inline_refs again, on the value the first call returned, with the same base path
\* and a fresh cache or the cache the first call filled
CallInlineRefsAgain(reuse) ==
    /\ inliner.state = "done"
    /\ inliner.out.exc = ""
    /\ \E again \in {InlineRefs(inliner.out.val, <<"refs">>,
                                  IF reuse THEN inliner.out.cache ELSE EmptyCache,
                                  [versions |-> <<>>, legacy |-> FALSE, refs |-> inliner.refs])} :
          inliner' = [state |-> "again", refs |-> inliner.refs, schema |-> inliner.schema,
                      out |-> inliner.out, reuse |-> reuse, again |-> again]
    /\ UNCHANGED <<listing, legacy, validator, last, cli, versions_root, registry_global, call, probe>>

InlineNext ==
    \/ \E schema \in InlineArgs : CallInlineRefs(schema)
    \/ \E reuse \in BOOLEAN : CallInlineRefsAgain(reuse)

InlineSpec == InlineInit /\ [][InlineNext]_vars

----------------------------------------------------------------------------
(* The structural validation step and the ValidationErrorDetail            *)
(* constructor on their own: a caller validates a nested document, or      *)
(* constructs a ValidationErrorDetail from a constraint name and values.   *)

\* the longest array in a nested document
MaxItems == 2

\* an array of strings
StringArray == Dict([type |-> Str("array"), items |-> Dict([type |-> Str("string")])])

\* an object with an array of strings in new_field
InnerObject ==
    Dict([type |-> Str("object"),
          required |-> List(<<Str("new_field")>>),
          properties |-> Dict([new_field |-> StringArray])])

\* schemas with properties inside items and items inside properties
NestedSchemas ==
    {Dict([type |-> Str("object"),
           required |-> List(<<Str("schema_version"), Str("description")>>),
           properties |-> Dict([schema_version |-> StringArray,
                                description |-> InnerObject,
                                new_field |-> StringArray])]),
     Dict([type |-> Str("array"), items |-> InnerObject])}

Leaves == {Str("d"), Num(5)}

Arrays == {List(a) : a \in Listings(Leaves, MaxItems)}

InnerDocuments == {Doc(Absent, Absent, nf) : nf \in {Absent, Str("d")} \cup Arrays}

\* the documents: objects with arrays and objects in their properties, and arrays of
\* objects
NestedDocuments ==
    {Doc(sv, descr, nf) : sv \in {Absent, List(<<Num(5)>>)},
                          descr \in {Absent, Num(5)} \cup InnerDocuments,
                          nf \in {Absent, Num(5)} \cup Arrays}
    \cup {List(a) : a \in Listings({Str("d"), Doc(Absent, Absent, Absent),
                                    Doc(Absent, Absent, List(<<Num(5)>>)),
                                    Doc(Absent, Absent, List(<<Str("d"), Num(5)>>))}, MaxItems)}

\* the constraint names that _generate_suggestion has a branch for
RecognisedNames ==
    {"required", "type", "pattern", "enum", "minLength", "maxLength", "minItems", "maxItems",
     "minimum", "maximum", "exclusiveMinimum", "exclusiveMaximum"}

\* what a caller passes as validator, validator_value and instance_value
ConstraintNames == RecognisedNames \cup {"format", "const", "version_detection", ""}

ExpectedValues ==
    {None, Num(5), Str("string"), Str("date-time"), Str("uri"), List(<<>>),
     List(<<Str("string")>>), List(<<Str("string"), Str("null")>>),
     List(<<Str("description"), Num(5)>>)}

ActualValues == {None, Num(5), Str("d"), List(<<Num(5)>>)}

DetailInit ==
    /\ probe = NoProbe
    /\ versions_root = TRUE
    /\ listing = <<>>
    /\ legacy = FALSE
    /\ validator = NoValidator
    /\ last = NoCall
    /\ cli = NoRun
    /\ registry_global = NoRegistry
    /\ call = NoRegistryCall
    /\ inliner = NoInline

\* "--- Schema Validation ---" of validate with the engine over schema, on instance
CallSchemaValidation(schema, instance) ==
    /\ probe.state = "none"
    /\ \E out \in {SchemaValidation(schema, instance)} :
          probe' = [state |-> "validated", schema |-> schema, instance |-> instance,
                    engine |-> IterErrors(schema, instance, <<>>, <<>>), out |-> out]
    /\ UNCHANGED <<listing, legacy, validator, last, cli, versions_root, registry_global, call, inliner>>

\* ValidationErrorDetail(message="m", validator=..., validator_value=..., instance_value=...)
ConstructDetail(validatorName, validator_value, instance_value) ==
    /\ probe.state = "none"
    /\ \E out \in {NewErrorDetail(Str("m"), <<>>, <<>>, validatorName, validator_value,
                                  instance_value)} :
          probe' = [state |-> "constructed", validator |-> validatorName,
                    validator_value |-> validator_value, instance_value |-> instance_value,
                    out |-> out]
    /\ UNCHANGED <<listing, legacy, validator, last, cli, versions_root, registry_global, call, inliner>>

DetailNext ==
    \/ \E schema \in NestedSchemas, instance \in NestedDocuments :
          CallSchemaValidation(schema, instance)
    \/ \E validatorName \in ConstraintNames, validator_value \in ExpectedValues,
          instance_value \in ActualValues :
          ConstructDetail(validatorName, validator_value, instance_value)

DetailSpec == DetailInit /\ [][DetailNext]_vars

----------------------------------------------------------------------------
(* The properties *)

\* a validate call of the library caller has produced its outcome
Called == last.kind # "none"

\* the call was made with auto_detect_version=True and raise_exceptions=False
AutoDetectReturning == Called /\ last.auto_detect_version /\ ~last.raise_exceptions

\* the Validator was constructed with a schema or a schema_version, not both
ExclusiveArgs == validator.schema_arg = None \/ validator.version_arg = None

\* the document of the call is a mapping that has (has not) a schema_version field
HasVersionField == last.instance.t = "dict" /\ "schema_version" \in DOMAIN last.instance.v
LacksVersionField == last.instance.t = "dict" /\ "schema_version" \notin DOMAIN last.instance.v

\* the violations of a document against a schema, and whether it has none
Violations(schema, instance) == SchemaValidation(schema, instance).errors
Conforms(schema, instance) ==
    SchemaValidation(schema, instance).exc = "" /\ Violations(schema, instance) = <<>>

\* the schema of a version as its file holds it, external references inlined:
\* [ok, schema], ok false when the file is unreadable or holds no valid schema
VersionSchema(version) ==
    LET dir == <<"schema", "versions", version>>
        f == FileAt(Append(dir, SchemaFileName), listing, legacy)
        inl == InlineRefs(f.json, dir, EmptyCache, FileSystem)
    IN  IF f.exists /\ f.parses /\ inl.exc = "" /\ CheckSchema(inl.val)
        THEN [ok |-> TRUE, schema |-> inl.val]
        ELSE [ok |-> FALSE, schema |-> None]

\* C1: with auto-detection and raise_exceptions=False, a document declaring a
\* schema_version that the registry does not support gets exactly one error, whose
\* message names the declared version and the supported versions, and no structural
\* validation is run.  Stated for the Validators constructed with at most one of
\* schema and schema_version.
C1_UnsupportedVersionSingleError ==
    (AutoDetectReturning /\ HasVersionField /\ ExclusiveArgs
       /\ ~IsVersionSupported(validator.obj.registry, last.instance.v["schema_version"]))
    => /\ last.out.kind = "return"
       /\ ~last.out.ran
       /\ Len(last.out.errors) = 1
       /\ Names(last.out.errors[1].message, last.instance.v["schema_version"])
       /\ Names(last.out.errors[1].message, GetSupportedVersions(validator.obj.registry))

\* C2: a Validator built with no schema and no version returns, for a document
\* declaring a supported version v whose schema file holds a valid schema, exactly the
\* violations of the document against the schema of v, whichever version it loaded
\* at construction.
C2_ValidatedAgainstDeclaredVersion ==
    (AutoDetectReturning /\ HasVersionField
       /\ validator.schema_arg = None /\ validator.version_arg = None
       /\ IsVersionSupported(validator.obj.registry, last.instance.v["schema_version"])
       /\ VersionSchema(last.instance.v["schema_version"].v).ok)
    => /\ last.out.kind = "return"
       /\ last.out.errors =
            Violations(VersionSchema(last.instance.v["schema_version"].v).schema, last.instance)

\* a Validator that loaded 0.2.0 at construction validates a document declaring 0.1.0,
\* without the field that only 0.2.0 requires, and finds it conforming
C2_Witness ==
    /\ AutoDetectReturning
    /\ validator.schema_arg = None /\ validator.version_arg = None
    /\ validator.obj.schema_version = Str("0.2.0")
    /\ Len(validator.obj.registry.supported) >= 2
    /\ last.instance = Doc(Str("0.1.0"), Str("d"), Absent)
    /\ last.out.kind = "return"
    /\ last.out.errors = <<>>
    /\ last.out.built = Str("0.1.0")

\* C3: a Validator constructed with an explicit schema and no schema_version returns,
\* with auto-detection and raise_exceptions=False, exactly the document's violations
\* of the supplied (inlined) schema, whatever the document says of its version.
C3_ExplicitSchemaIsUsed ==
    (AutoDetectReturning /\ last.instance.t = "dict"
       /\ validator.schema_arg # None /\ validator.version_arg = None)
    => /\ last.out.kind = "return"
       /\ last.out.errors = Violations(validator.obj.schema, last.instance)

\* C4: a document that conforms to the schema selected for it gets an empty list and no
\* exception, with raise_exceptions true or false; and with raise_exceptions=False an
\* empty list is returned only for a document without violation.
C4_SuccessOrFailure ==
    Called =>
      /\ (last.out.ran /\ Conforms(last.out.used, last.instance))
           => (last.out.kind = "return" /\ last.out.errors = <<>>)
      /\ (~last.raise_exceptions /\ last.out.kind = "return" /\ last.out.errors = <<>>)
           => (last.out.ran /\ Conforms(last.out.used, last.instance))

\* a conforming document validated with raise_exceptions=True: an empty list, no raise
C4_Witness ==
    /\ Called
    /\ last.raise_exceptions
    /\ last.out.ran
    /\ Conforms(last.out.used, last.instance)
    /\ last.out.kind = "return"
    /\ last.out.errors = <<>>

C6_RequiredErrorNamesProperty ==
    (Called /\ ~last.raise_exceptions /\ last.instance.t = "dict") =>
      /\ (last.out.ran /\ "required" \in DOMAIN last.out.used.v) =>
            \A k \in 1..Len(last.out.used.v["required"].v) :
               LET p == last.out.used.v["required"].v[k]
               IN  p.v \notin DOMAIN last.instance.v =>
                     /\ last.out.kind = "return"
                     /\ \E i \in 1..Len(last.out.errors) :
                           /\ last.out.errors[i].validator = "required"
                           /\ Names(last.out.errors[i].suggestion, p)
      /\ (last.auto_detect_version /\ LacksVersionField
            /\ validator.obj.schema_version = None) =>
            /\ last.out.kind = "return"
            /\ \E i \in 1..Len(last.out.errors) :
                  /\ last.out.errors[i].validator = "required"
                  /\ Names(last.out.errors[i].suggestion, Str("schema_version"))

\* C7: constructing a Validator with both schema and schema_version fails, and the
\* command line given both --schema and --schema-version exits with code 1 and the
\* message 'Cannot specify both --schema and --schema-version'.
C7_SchemaAndVersionExclusive ==
    /\ (validator.state # "none" /\ validator.schema_arg # None /\ validator.version_arg # None)
         => validator.state = "failed"
    /\ (cli.state = "done" /\ {"--schema", "--schema-version"} \subseteq cli.options)
         => /\ cli.run.exit_code = 1
            /\ cli.run.output = <<"Cannot specify both --schema and --schema-version">>

\* C8: with auto-detection and raise_exceptions=False, a document without
\* schema_version gets exactly one synthetic error and no structural validation when
\* the validator has no configured version, and is validated structurally against the
\* configured version's schema when it has one.  Stated for the Validators constructed
\* with at most one of schema and schema_version.
C8_MissingVersionField ==
    (AutoDetectReturning /\ LacksVersionField /\ ExclusiveArgs) =>
      IF validator.obj.schema_version = None
      THEN /\ last.out.kind = "return"
           /\ ~last.out.ran
           /\ Len(last.out.errors) = 1
           /\ last.out.errors[1].message =
                Str("No schema_version field found in data and no default version configured. Please specify a schema_version in your signalJourney file.")
      ELSE /\ last.out.ran
           /\ VersionSchema(validator.obj.schema_version.v).ok
           /\ last.out.used = VersionSchema(validator.obj.schema_version.v).schema
           /\ last.out.kind = "return"
           /\ last.out.errors =
                Violations(VersionSchema(validator.obj.schema_version.v).schema, last.instance)

\* C9: a str argument holding JSON text is parsed and validated as the document, and
\* only a path that does not exist is a not-found failure.  Stated for the Validators
\* constructed with no argument.
C9_JsonStringAccepted ==
    (Called /\ validator.schema_arg = None /\ validator.version_arg = None) =>
      /\ last.data = JsonText => ~(last.out.kind = "raise" /\ last.out.exc = "FileNotFoundError")
      /\ (last.out.kind = "raise" /\ last.out.exc = "FileNotFoundError" /\ last.out.built = None)
           => (last.data.t = "Path" /\ ~DataFileAt(last.data.v).exists)

\* C10: with raise_exceptions=False, for an input that exists and parses as JSON,
\* whatever its top-level value, no exception escapes validate other than a failure of
\* a schema file.  Stated for the Validators constructed with no argument.
C10_NoEscapeWhenReturning ==
    (Called /\ ~last.raise_exceptions /\ LoadInstance(last.data).exc = ""
       /\ validator.schema_arg = None /\ validator.version_arg = None)
    => (last.out.kind = "raise"
          => (last.out.exc \in {"IOError", "FileNotFoundError"} /\ last.out.built # None))

\* C11: an invalid schema structure is always fatal: construction raises
\* SignalJourneyValidationError when the inlined schema fails the structural check,
\* and a validate call that builds a validator for a detected version whose schema
\* is structurally invalid or unreadable raises, whatever raise_exceptions is.  The
\* validate part is stated for the Validators constructed with at most one of schema
\* and schema_version.
C11_InvalidSchemaIsFatal ==
    /\ validator.state = "constructed" => CheckSchema(validator.obj.schema)
    /\ (validator.state # "none" /\ validator.schema_arg = SchemaV030)
         => (validator.state = "failed" /\ validator.obj.exc = "SignalJourneyValidationError")
    /\ (Called /\ last.auto_detect_version /\ HasVersionField /\ ExclusiveArgs
          /\ IsVersionSupported(validator.obj.registry, last.instance.v["schema_version"])
          /\ NeedsOtherValidator(validator.obj, last.instance.v["schema_version"])
          /\ ~VersionSchema(last.instance.v["schema_version"].v).ok)
         => last.out.kind = "raise"

----------------------------------------------------------------------------
(* The properties of the registry *)

\* the entries of the versions directory that are directories holding a schema file
HoldsSchemaFile(name) == name \in VersionNames \cup {"draft", "1.x"}

Discovered ==
    IF versions_root
    THEN {listing[i] : i \in {j \in 1..Len(listing) : HoldsSchemaFile(listing[j])}}
    ELSE {}

\* the well-formed dotted numerics among the names, with their components
WellFormed(name) == name \in VersionNames

Components(name) ==
    CASE name = "0.1.0" -> <<0, 1, 0>>
      [] name = "0.2.0" -> <<0, 2, 0>>
      [] name = "0.3.0" -> <<0, 3, 0>>
      [] name = "0.10.0" -> <<0, 10, 0>>

\* C12: get_supported_versions lists exactly the discovered names (none when the
\* versions root is missing), by ascending components when all of them are well-formed
\* dotted numerics and by ascending code points otherwise; get_latest_version is None
\* exactly when nothing is discovered, and the name with the greatest components when
\* all names are well formed.
C12_SortedVersionsAndLatest ==
    /\ call.op = "get_supported_versions" =>
          LET s == call.result.v
          IN  /\ {s[i].v : i \in 1..Len(s)} = Discovered
              /\ Len(s) = Cardinality(Discovered)
              /\ (\A n \in Discovered : WellFormed(n)) =>
                     \A i, j \in 1..Len(s) :
                        i < j => ~SeqLess(Components(s[j].v), Components(s[i].v))
              /\ (\E n \in Discovered : ~WellFormed(n)) =>
                     \A i, j \in 1..Len(s) : i < j => StrLess(s[i].v, s[j].v)
    /\ call.op = "get_latest_version" =>
          /\ (call.result = None) <=> (Discovered = {})
          /\ (Discovered # {} /\ \A n \in Discovered : WellFormed(n)) =>
                 /\ call.result.t = "str" /\ call.result.v \in Discovered
                 /\ \A n \in Discovered : ~SeqLess(Components(call.result.v), Components(n))

\* 0.10.0 was listed before 0.2.0 and the registry answers 0.2.0, 0.10.0
C12_Witness ==
    /\ listing = <<"0.10.0", "0.2.0">>
    /\ call.op = "get_supported_versions"
    /\ call.result = List(<<Str("0.2.0"), Str("0.10.0")>>)

\* C13: get_schema_path(v) and load_schema(v) raise ValueError exactly when v is not a
\* discovered version, with a message that holds the list of supported versions; for a
\* discovered v, get_schema_path gives versions/v/signalJourney.schema.json under the
\* schema directory.
C13_UnsupportedExactlyWhenNotDiscovered ==
    (call.op \in {"get_schema_path", "load_schema"}) =>
       /\ (call.result.exc = "ValueError") <=> (call.arg.v \notin Discovered)
       /\ call.result.exc = "ValueError" =>
             \E i \in 1..Len(call.result.message.args) :
                LET a == call.result.message.args[i]
                IN  a.t = "list" /\ {a.v[k].v : k \in 1..Len(a.v)} = Discovered
       /\ (call.op = "get_schema_path" /\ call.arg.v \in Discovered) =>
             call.result.path = <<"schema", "versions", call.arg.v, "signalJourney.schema.json">>

\* an undiscovered version was asked of a registry that has versions
C13_Witness ==
    /\ call.op = "load_schema"
    /\ call.arg = Str("0.3.0")
    /\ listing = <<"0.1.0", "empty">>
    /\ call.result.exc = "ValueError"

\* C14: detect_schema_version of a dict returns the value of "schema_version", or of
\* "sj_version" when the dict has no "schema_version", and None only when it has neither.
C14_DetectsEitherField ==
    (call.op = "detect_schema_version" /\ call.arg.t = "dict") =>
       /\ call.result.exc = ""
       /\ call.result.version =
             (IF "schema_version" \in DOMAIN call.arg.v THEN call.arg.v["schema_version"]
              ELSE IF "sj_version" \in DOMAIN call.arg.v THEN call.arg.v["sj_version"]
              ELSE None)

----------------------------------------------------------------------------
(* The properties of the process-wide registry *)

\* C15: in every call of get_registry, directly or by a helper, the registry is built
\* when there is none; a call that passes a schema_dir other than the cached one's
\* replaces it by a new registry of that directory; a call with no schema_dir or with
\* the cached one's leaves the cached registry in place; the call works on the registry
\* that is then cached: get_registry returns it, and the helpers answer from it.
C15_SingletonSemantics ==
    [][registry_global' # registry_global =>
         LET g == registry_global
             h == registry_global'
             fresh == /\ h._registry.id = g.made + 1
                      /\ h.made = g.made + 1
                      /\ h._registry.obj.schema_dir =
                            (IF h.arg = None THEN DEFAULT_SCHEMA_DIR ELSE h.arg.v)
                      /\ h._registry.obj.supported =
                            NewRegistryIn(h.arg, TRUE, RootListing(h._registry.obj.schema_dir)).supported
         IN  /\ g._registry = None => fresh
             /\ (g._registry # None /\ h.arg # None /\ h.arg.v # g._registry.obj.schema_dir)
                   => fresh
             /\ (g._registry # None /\ (h.arg = None \/ h.arg.v = g._registry.obj.schema_dir))
                   => (h._registry = g._registry /\ h.made = g.made)
             /\ h.op = "get_registry" => h.returned = h._registry
             /\ h.op = "get_supported_versions"
                   => h.returned = GetSupportedVersions(h._registry.obj)
             /\ h.op = "is_version_supported"
                   => h.returned.answer = IsVersionSupported(h._registry.obj, h.returned.version)
             /\ h.op = "load_schema_for_version"
                   => h.returned.answer =
                        LoadSchema(h._registry.obj, h.returned.version,
                                   RootListing(h._registry.obj.schema_dir))
    ]_vars

\* after the packaged registry was built and then replaced by get_registry(custom_a),
\* get_supported_versions() answers with the versions of custom_a
C15_Witness ==
    /\ listing = <<"0.3.0">>
    /\ registry_global.written = <<DEFAULT_SCHEMA_DIR, <<"custom_a">>>>
    /\ registry_global.op = "get_supported_versions"
    /\ registry_global.returned = List(<<Str("0.1.0"), Str("0.2.0")>>)

\* C16: the process-wide registry is constructed and stored at most once for each
\* schema directory.
C16_WrittenOncePerRoot ==
    \A i, j \in 1..Len(registry_global.written) :
       i # j => registry_global.written[i] # registry_global.written[j]

----------------------------------------------------------------------------
(* The properties of the command line *)

\* the command ran up to its report: click accepted the command line and --bids came
\* with --bids-root
ReachedLoop ==
    /\ cli.state = "done"
    /\ cli.run.exit_code # 2
    /\ ~("--bids" \in cli.options /\ "--bids-root" \notin cli.options)

\* the file has a record with status "passed" among the records
PassedIn(records, filepath) ==
    \E k \in 1..Len(records) : records[k].filepath = filepath /\ records[k].status = "passed"

\* C17: a run that selected files exits with 0 or 1, and with 0 exactly when every
\* selected file passed; a file for which the Validator could not be constructed has
\* not passed, in text mode and in json mode.
C17_ExitCodeTellsSuccess ==
    (ReachedLoop /\ Len(cli.run.selected) > 0) =>
       /\ cli.run.exit_code \in {0, 1}
       /\ (cli.run.exit_code = 0) <=>
             \A i \in 1..Len(cli.run.selected) : PassedIn(cli.run.files, cli.run.selected[i])

\* C18: in json mode a run that reaches its report prints an object with the fields
\* overall_success, a boolean, and files, in which every selected file has exactly one
\* record, every record is of a selected file and has status passed, failed, error or
\* critical_error, and overall_success is true exactly when every record is passed.
C18_JsonReportShape ==
    (ReachedLoop /\ cli.output_format = "json") =>
       /\ DOMAIN cli.run.printed = {"overall_success", "files"}
       /\ cli.run.printed.overall_success \in BOOLEAN
       /\ LET records == cli.run.printed.files
          IN  /\ Len(records) = Len(cli.run.selected)
              /\ \A i \in 1..Len(cli.run.selected) :
                    Cardinality({k \in 1..Len(records) :
                                   records[k].filepath = cli.run.selected[i]}) = 1
              /\ \A k \in 1..Len(records) :
                    records[k].status \in {"passed", "failed", "error", "critical_error"}
              /\ cli.run.printed.overall_success
                    <=> \A k \in 1..Len(records) : records[k].status = "passed"

\* a directory was validated in json mode and the Validator could not be constructed
C18_Witness ==
    /\ ReachedLoop /\ cli.output_format = "json"
    /\ Len(cli.run.selected) > 1
    /\ \A k \in 1..Len(cli.run.printed.files) : cli.run.printed.files[k].status = "critical_error"

----------------------------------------------------------------------------
(* The properties of validate without version detection *)

\* C19: with auto_detect_version=False a validate call whose document loads runs the
\* validator's configured schema over it, whatever the document declares: no validator
\* is built for another version, no error entry comes from version detection, and when
\* the engine raises nothing the outcome holds exactly the violations of the
\* configured schema.
C19_ConfiguredSchemaWithoutDetection ==
    (Called /\ ~last.auto_detect_version /\ LoadInstance(last.data).exc = "") =>
       /\ last.out.ran
       /\ last.out.used = validator.obj.schema
       /\ last.out.built = None
       /\ \A i \in 1..Len(last.out.errors) :
             last.out.errors[i].validator \notin {"version_support", "version_detection"}
       /\ SchemaValidation(validator.obj.schema, last.instance).exc = "" =>
             last.out.errors = Violations(validator.obj.schema, last.instance)

\* a Validator of version 0.1.0 validated, without detection, a document that declares
\* 0.2.0 and conforms to the schema of 0.1.0
C19_Witness ==
    /\ Called /\ ~last.auto_detect_version
    /\ validator.obj.schema_version = Str("0.1.0")
    /\ "0.2.0" \in SeqToSet(listing)
    /\ last.instance.t = "dict"
    /\ DictGet(last.instance, "schema_version") = Str("0.2.0")
    /\ last.out.kind = "return"
    /\ last.out.errors = <<>>

----------------------------------------------------------------------------
(* The properties of inline_refs *)

\* whether a value contains an external reference
RECURSIVE HasExternalRef(_)
HasExternalRef(x) ==
    \/ IsExternalRef(x)
    \/ x.t = "dict" /\ \E k \in DOMAIN x.v : HasExternalRef(x.v[k])
    \/ x.t = "list" /\ \E i \in 1..Len(x.v) : HasExternalRef(x.v[i])

\* the files that the external references of a value name
RECURSIVE RefTargets(_)
RefTargets(x) ==
    IF IsExternalRef(x) THEN {x.v["$ref"].v}
    ELSE IF x.t = "dict" THEN UNION {RefTargets(x.v[k]) : k \in DOMAIN x.v}
    ELSE IF x.t = "list" THEN UNION {RefTargets(x.v[i]) : i \in 1..Len(x.v)}
    ELSE {}

\* the files reached from a set of files by the references of the files, in n steps
RECURSIVE Reached(_, _, _)
Reached(files, names, n) ==
    IF n = 0 THEN names
    ELSE Reached(files,
                 names \cup UNION {RefTargets(files[f]) : f \in names \cap DOMAIN files},
                 n - 1)

\* the files that a value refers to, directly or through files
ReachedFrom(files, x) == Reached(files, RefTargets(x), MaxRefFiles)

\* C20: when every file reached from the schema exists and parses and no file reaches
\* itself, inline_refs returns, raising nothing, a value without any
\* external reference.  The graphs with a cycle, which no finite value can inline in
\* full, are left out of the statement.
C20_NoExternalRefRemains ==
    (/\ inliner.state = "done"
     /\ ReachedFrom(inliner.refs, inliner.schema) \subseteq DOMAIN inliner.refs
     /\ \A f \in ReachedFrom(inliner.refs, inliner.schema) :
           inliner.refs[f] \notin {Directory, Garbage}
     /\ \A f \in ReachedFrom(inliner.refs, inliner.schema) :
           f \notin ReachedFrom(inliner.refs, inliner.refs[f]))
    => /\ inliner.out.exc = ""
       /\ ~HasExternalRef(inliner.out.val)

\* the files reached from the schema that reach themselves
OnCycle ==
    {f \in ReachedFrom(inliner.refs, inliner.schema) \cap DOMAIN inliner.refs :
       f \in ReachedFrom(inliner.refs, inliner.refs[f])}

\* a value with every external reference replaced by the content of its file, expanded
\* in turn, a reference to a file under expansion by the file's content as it is
RECURSIVE Expanded(_, _, _)
Expanded(files, x, open) ==
    IF IsExternalRef(x)
    THEN LET f == x.v["$ref"].v
         IN  IF f \in open THEN files[f] ELSE Expanded(files, files[f], open \cup {f})
    ELSE IF x.t = "dict" THEN Dict([k \in DOMAIN x.v |-> Expanded(files, x.v[k], open)])
    ELSE IF x.t = "list" THEN List([i \in 1..Len(x.v) |-> Expanded(files, x.v[i], open)])
    ELSE x

BadTarget(f) ==
    \/ f \notin DOMAIN inliner.refs
    \/ inliner.refs[f] \in {Directory, Garbage}
    \/ inliner.refs[f].t \notin {"dict", "list"}

\* C22: when every reference of the schema has a target that is missing, not a file,
\* not JSON or a JSON scalar, inline_refs returns without raising and returns the schema
\* as it was, every occurrence of every reference in place.  (An array target is a
\* further case of the claim; it is left out here.)
C22_BadTargetsLeftInPlace ==
    (/\ inliner.state \in {"done", "again"}
     /\ \A f \in RefTargets(inliner.schema) : BadTarget(f))
    => /\ inliner.out.exc = ""
       /\ inliner.out.val = inliner.schema

\* C23: when no file reached from the schema reaches itself, inline_refs applied to
\* the value that inline_refs returned, with the same base path and the files
\* unchanged, with a fresh cache or the cache of the first call, returns without
\* raising a value equal to its argument.
C23_InliningIsIdempotent ==
    (inliner.state = "again" /\ OnCycle = {})
    => /\ inliner.again.exc = ""
       /\ inliner.again.val = inliner.out.val

----------------------------------------------------------------------------
(* The properties of a run over several files *)

\* C24: in a run of the command over several files, with its one Validator of the
\* default schema, a validator for a version is built at most once: the versions that
\* validators were built for during the run are all different.
C24_VersionValidatorBuiltOnce ==
    (cli.state = "done" /\ cli.schema = None) =>
       \A i, j \in 1..Len(cli.run.built) : i # j => cli.run.built[i] # cli.run.built[j]

----------------------------------------------------------------------------
(* The properties of the structural validation step *)

\* p < q as Python compares two paths of one document
RECURSIVE PathBefore(_, _)
PathBefore(p, q) ==
    IF Len(q) = 0 THEN FALSE
    ELSE IF Len(p) = 0 THEN TRUE
    ELSE IF p[1] = q[1] THEN PathBefore(Tail(p), Tail(q))
    ELSE IF p[1].t = "str" THEN StrLess(p[1].v, q[1].v)
    ELSE p[1].v < q[1].v

\* how many entries of a list of ValidationErrorDetail report the engine's error e
Reports(details, e) ==
    Cardinality({i \in 1..Len(details) :
                   /\ details[i].message = e.message
                   /\ details[i].path = e.path
                   /\ details[i].schema_path = e.schema_path
                   /\ details[i].validator = e.validator
                   /\ details[i].validator_value = e.validator_value
                   /\ details[i].instance_value = e.instance})

\* how many times the engine yields the error e
Yields(errors, e) == Cardinality({i \in 1..Len(errors) : errors[i] = e})

\* whether a path has a property name and an array index
Mixed(path) ==
    /\ \E i \in 1..Len(path) : path[i].t = "str"
    /\ \E i \in 1..Len(path) : path[i].t = "int"

\* C25: structural validation of a document reports every violation the engine finds,
\* one ValidationErrorDetail for each, in non-decreasing order of the instance paths;
\* sorting by path does not fail, paths of property names and array indices included.
C25_AllViolationsInPathOrder ==
    (probe.state = "validated") =>
       /\ probe.engine.exc = ""
       /\ probe.out.exc = ""
       /\ Len(probe.out.errors) = Len(probe.engine.errors)
       /\ \A k \in 1..Len(probe.engine.errors) :
             Reports(probe.out.errors, probe.engine.errors[k])
               = Yields(probe.engine.errors, probe.engine.errors[k])
       /\ \A i, j \in 1..Len(probe.out.errors) :
             i < j => ~PathBefore(probe.out.errors[j].path, probe.out.errors[i].path)

\* a document with several violations, one of them under a path of a property name and
\* an array index, which the engine yields in another order than that of the paths
C25_Witness ==
    /\ probe.state = "validated"
    /\ probe.out.exc = ""
    /\ Len(probe.out.errors) >= 3
    /\ \E i \in 1..Len(probe.out.errors) : Mixed(probe.out.errors[i].path)
    /\ \E i \in 1..Len(probe.out.errors) : probe.out.errors[i].path # probe.engine.errors[i].path

----------------------------------------------------------------------------
(* The properties of the ValidationErrorDetail constructor *)

\* C26: constructing a ValidationErrorDetail raises nothing, whatever the constraint
\* name and the expected and actual values are (lists with elements that are not
\* strings included), and for a constraint name outside the recognised set the
\* suggestion stays absent.
C26_ConstructionNeverRaises ==
    (probe.state = "constructed") =>
       /\ probe.out.exc = ""
       /\ probe.validator \notin RecognisedNames => probe.out.detail.suggestion = None

\* C27: for the constraint name 'format' with the format 'date-time' or 'uri' a
\* suggestion is generated and it names the required format keyword.
C27_FormatSuggestionNamesFormat ==
    (/\ probe.state = "constructed"
     /\ probe.validator = "format"
     /\ probe.validator_value \in {Str("date-time"), Str("uri")})
    => /\ probe.out.exc = ""
       /\ probe.out.detail.suggestion # None
       /\ Names(probe.out.detail.suggestion, probe.validator_value)

\* the separators that join with the word or
OrSeparators == {"or", " or ", "' or '", ", or ", "', or '"}

\* C28: for the constraint name 'type' the suggestion names the actual type of the
\* value and the expected type: with one expected type it is
\* "Change value type from '<actual>' to '<expected>'.", and several expected types
\* are joined with "or".
C28_TypeSuggestionJoinsWithOr ==
    (probe.state = "constructed" /\ probe.validator = "type" /\ probe.out.exc = "")
    =>  LET s == probe.out.detail.suggestion
            expected == probe.validator_value
            actual == Str(probe.instance_value.t)
        IN  /\ expected.t = "str" =>
                  s = FStr("Change value type from '{actual_type}' to '{expected_types}'.",
                           <<actual, expected>>)
            /\ (expected.t = "list" /\ Len(expected.v) >= 2) =>
                  /\ Names(s, actual)
                  /\ \A i \in 1..Len(expected.v) : Names(s, expected.v[i])
                  /\ \E i \in 1..Len(s.args) :
                        "sep" \in DOMAIN s.args[i] /\ s.args[i].sep \in OrSeparators

----------------------------------------------------------------------------
(* The Validator across validate calls *)

\* C29: validate leaves the Validator unchanged.  In every state a constructed
\* Validator, whatever validate calls were made on it, has the current version, the
\* schema (and so the default engine) and the supported versions that construction
\* from the same arguments gives, and the outcome of a validate call on it is the
\* outcome of that call on a Validator just constructed.
C29_ValidateLeavesValidatorUnchanged ==
    (validator.state = "constructed") =>
       LET fresh == NewValidator(validator.schema_arg, validator.version_arg, FileSystem)
       IN  /\ validator.obj.schema_version = fresh.schema_version
           /\ validator.obj.schema = fresh.schema
           /\ GetSupportedVersions(validator.obj.registry) = GetSupportedVersions(fresh.registry)
           /\ Called =>
                 last.out = ValidateCall(fresh, last.data, last.raise_exceptions, last.bids_context,
                                         last.auto_detect_version, FileSystem)

\* a validate call that built and used the validator of another version than the
\* Validator's own, which still has its own version and schema
C29_Witness ==
    /\ validator.state = "constructed"
    /\ Called
    /\ last.out.ran
    /\ last.out.built # None
    /\ last.out.built # validator.obj.schema_version
    /\ last.out.used # validator.obj.schema
    /\ validator.obj = NewValidator(validator.schema_arg, validator.version_arg, FileSystem)

\* C30: the two result modes of validate agree.  For a call on a parsed document, on a
\* Validator constructed without a schema argument, whenever the call with raise_exceptions=False returns a list, the call with
\* raise_exceptions=True raises SignalJourneyValidationError exactly when that list is
\* not empty, and the errors attribute of the exception is that list; the synthetic
\* errors of an unsupported or a missing version are among the cases.
C30_ResultModesAgree ==
    (Called /\ last.instance.t = "dict" /\ validator.schema_arg = None) =>
       LET other == ValidateCall(validator.obj, last.data, ~last.raise_exceptions,
                                 last.bids_context, last.auto_detect_version, FileSystem)
           raising == IF last.raise_exceptions THEN last.out ELSE other
           returning == IF last.raise_exceptions THEN other ELSE last.out
       IN  (returning.kind = "return") =>
              /\ (raising.kind = "raise" /\ raising.exc = "SignalJourneyValidationError")
                    <=> (returning.errors # <<>>)
              /\ raising.kind = "raise" => raising.errors = returning.errors

====
